---- MODULE Spec2Model ----
(***************************************************************************)
(* State-machine model of the comparison engine of github-release-stats   *)
(* (class GithubReleaseStats, src/src/github-release-stats.ts, second      *)
(* revision, lines 1273-2770) together with the parts of the summary       *)
(* table that decide which intents the user can raise.                     *)
(*                                                                         *)
(* Strings that the code joins and splits (repo identifiers, the `repos`   *)
(* location parameter) are sequences of atomic tokens: "a/x,b/x" is        *)
(* <<"a", "/", "x", ",", "b", "/", "x">>.  The empty string is <<>>.       *)
(***************************************************************************)
EXTENDS Integers, Sequences, FiniteSets, TLC

(***************************************************************************)
(* Bounds of the model.                                                    *)
(***************************************************************************)
\* user intents raised in one behaviour
MaxOps == 3
\* primary batches issued in one behaviour (the one of engine start included)
MaxBatches == 2
\* supplemental fetches issued in one behaviour
MaxSupps == 2
\* user intents raised in one behaviour of the save-set, clear-all, load-set
\* sequence
MaxOpsRoundTrip == 4

\* the collectors: the longest finite source in pages, the items of a full
\* page, the calls of a collector in one behaviour
MaxSourcePages == 11
PageSize == 2
MaxCalls == 2

\* the charts: the latest timestamp, the longest star and issue event lists
MaxTime == 3
MaxStarEvents == 4
MaxIssueEvents == 3

\* the export: the user intents raised in one behaviour of the engine, and
\* the longest identifier or version text of an exported row in characters
MaxOpsExport == 2
MaxTextLen == 3

(***************************************************************************)
(* Small input universes.                                                  *)
(***************************************************************************)
\* what the user may have typed into the two form fields at a submit
FormInputs ==
  { <<"a", "x">>, <<"a", "y">>, <<"b", "x">>, <<"", "x">>, <<"a", "">> }

\* credentials: "" is "no credential"
Tokens == {"", "t1"}

\* names of saved sets
SetNames == {"X"}

\* a location parameter or storage key: not there, or there with a value
Absent == [has |-> FALSE, value |-> <<>>]
Present(v) == [has |-> TRUE, value |-> v]

(***************************************************************************)
(* String helpers (token sequences).                                       *)
(***************************************************************************)
\* a field value as a token sequence
Tok(s) == IF s = "" THEN <<>> ELSE <<s>>

\* a one-segment token sequence as a field value
Untok(seg) == IF seg = <<>> THEN "" ELSE seg[1]

\* `${r.username}/${r.repository}`
Identifier(r) == Tok(r.username) \o <<"/">> \o Tok(r.repository)

\* Array.prototype.join(',') over identifier strings
RECURSIVE Join(_)
Join(ids) ==
  IF ids = <<>> THEN <<>>
  ELSE IF Len(ids) = 1 THEN ids[1]
  ELSE ids[1] \o <<",">> \o Join(Tail(ids))

\* String.prototype.split(sep): the segments between the separators
RECURSIVE SplitFrom(_, _, _)
SplitFrom(s, sep, cur) ==
  IF s = <<>> THEN <<cur>>
  ELSE IF Head(s) = sep THEN <<cur>> \o SplitFrom(Tail(s), sep, <<>>)
  ELSE SplitFrom(Tail(s), sep, Append(cur, Head(s)))

Split(s, sep) == SplitFrom(s, sep, <<>>)

\* r.split('/') destructured into [username, repository]; null (here: the
\* empty sequence) unless both are non-empty
ParseRepo(r) ==
  LET parts == Split(r, "/")
      username == Untok(parts[1])
      repository == IF Len(parts) >= 2 THEN Untok(parts[2]) ELSE ""
  IN  IF username # "" /\ repository # ""
        THEN <<[username |-> username, repository |-> repository]>>
        ELSE <<>>

\* list.map(parse).filter(r => r !== null)
RECURSIVE ParseRepoList(_)
ParseRepoList(list) ==
  IF list = <<>> THEN <<>>
  ELSE ParseRepo(Head(list)) \o ParseRepoList(Tail(list))

\* generic sequence helpers
Range(s) == { s[i] : i \in DOMAIN s }

MapSeq(s, f(_)) == [i \in DOMAIN s |-> f(s[i])]

\* a Map as a function: Map.delete, Map.set, Map.has
MapDelete(m, k) == [x \in (DOMAIN m) \ {k} |-> m[x]]
MapSet(m, k, v) == [x \in (DOMAIN m) \cup {k} |-> IF x = k THEN v ELSE m[x]]
EmptyMap == [x \in {} |-> 0]

(***************************************************************************)
(* The remote API: what a request for a repository returns.  The data of   *)
(* the three repositories differ pairwise, so a row built from another     *)
(* repository's responses is recognisable.                                 *)
(***************************************************************************)
IdAX == <<"a", "/", "x">>
IdAY == <<"a", "/", "y">>
IdBX == <<"b", "/", "x">>

\* repos.listReleases: published_at = 0 stands for null (a draft)
ServerReleases(id) ==
  CASE id = IdAX -> << [tag_name |-> "v3", published_at |-> 0, assets |-> <<10>>],
                       [tag_name |-> "v2", published_at |-> 20, assets |-> <<3, 4>>],
                       [tag_name |-> "v1", published_at |-> 10, assets |-> <<5>>] >>
    [] id = IdAY -> << >>
    [] OTHER     -> << [tag_name |-> "v1", published_at |-> 15, assets |-> <<12>>] >>

\* repos.get
ServerDetails(id) ==
  CASE id = IdAX -> [stargazers_count |-> 5, pushed_at |-> 30, size |-> 100,
                     open_issues_count |-> 2]
    [] id = IdAY -> [stargazers_count |-> 5, pushed_at |-> 10, size |-> 50,
                     open_issues_count |-> 0]
    [] OTHER     -> [stargazers_count |-> 9, pushed_at |-> 20, size |-> 100,
                     open_issues_count |-> 1]

\* what _fetchStargazers / _fetchIssues resolve to for a repository
ServerStargazers(id) == [kind |-> "stargazers", of |-> id]
ServerIssues(id) == [kind |-> "issues", of |-> id]

\* localize.t('common.notAvailable')
NotAvailable == "N/A"

\* messages
ErrFetchRepoData == "errors.fetchRepoData"
ErrFetchStarHistory == "errors.fetchStarHistory"
ErrFetchIssueHistory == "errors.fetchIssueHistory"
ErrAuthRequired == "errors.authRequired"

(***************************************************************************)
(* State.                                                                  *)
(***************************************************************************)
VARIABLES
  repos,            \* _repos: sequence of [username, repository]
  releasesData,     \* _releasesData: identifier -> published releases
  downloadsData,    \* _downloadsData: identifier -> total downloads
  stargazersData,   \* _stargazersData: identifier -> star events
  issuesData,       \* _issuesData: identifier -> issue events
  repoSummaryData,  \* _repoSummaryData: sequence of rows
  repoOrder,        \* _repoOrder: sequence of identifiers
  chartMetric,      \* _chartMetric
  sortKey,          \* _sortKey
  sortDirection,    \* _sortDirection
  loading,          \* _loading
  error,            \* _error
  authError,        \* _authError
  githubToken,      \* _githubToken (and the auth of this.octokit)
  savedSets,        \* _savedSets: name -> sequence of identifiers
  storedSets,       \* localStorage[_storageKey]: the encoded mapping, or Absent
  url,              \* the `repos` location parameter, or Absent
  confirmAction,    \* _confirmAction: [kind, setName]; kind "none" when null
  confirmModal,     \* is the confirmation dialog (_confirmModal) showing
  batches,          \* the calls of _fetchDataForRepos, in issue order
  supps,            \* the supplemental fetches of _handleRequestSort, in issue order
  lastCommit,       \* history: index in batches of the batch that committed last (0: none)
  nops,             \* history: number of user intents so far
  lastOp,           \* history: the last user intent, [kind, arg]
  quiet,            \* history: no primary batch has committed since that intent
  budget,           \* the number of user intents one behaviour may raise
  roundTrip,        \* history: how far a save-set, clear-all, load-set sequence
                    \* has come, and the order on display at the save-set
  coll,             \* one call of _fetchStargazers or _fetchIssues: the source
                    \* it pages through, its locals and where it stands
  chart,            \* the chart-display component: the properties it was
                    \* handed and the configuration it built from them
  download          \* the file the CSV export handed to the browser

vars ==
  << repos, releasesData, downloadsData, stargazersData, issuesData,
     repoSummaryData, repoOrder, chartMetric, sortKey, sortDirection, loading,
     error, authError, githubToken, savedSets, storedSets, url, confirmAction,
     confirmModal, batches, supps, lastCommit, nops, lastOp, quiet, budget,
     roundTrip, coll, chart, download >>

\* the engine's fields and the history kept about them
engine ==
  << repos, releasesData, downloadsData, stargazersData, issuesData,
     repoSummaryData, repoOrder, chartMetric, sortKey, sortDirection, loading,
     error, authError, githubToken, savedSets, storedSets, url, confirmAction,
     confirmModal, batches, supps, lastCommit, nops, lastOp, quiet, budget,
     roundTrip >>

\* the engine's data written by a primary batch
primary == << releasesData, downloadsData, repoSummaryData, repoOrder >>

RepoIds == MapSeq(repos, Identifier)

(***************************************************************************)
(* Persistence of the saved sets: JSON.stringify / JSON.parse of a         *)
(* Record<string, string[]>, as the set of its (name, list) members.       *)
(***************************************************************************)
Stringify(sets) == { <<n, sets[n]>> : n \in DOMAIN sets }

JsonParse(text) == [n \in { m[1] : m \in text } |->
                      (CHOOSE m \in text : m[1] = n)[2]]

(***************************************************************************)
(* _updateURL                                                              *)
(***************************************************************************)
UpdateURL(order) == IF Len(order) > 0 THEN Present(Join(order)) ELSE Absent

(***************************************************************************)
(* _fetchDataForRepos, up to its await: the fan-out.  The closure keeps    *)
(* fetchPromises, one pair of requests per entry of _repos at this         *)
(* moment, issued with the octokit of this moment.                         *)
(***************************************************************************)
\* each entry of _repos contributes Promise.all([releasesPromise,
\* repoDetailsPromise]); Promise.all over the pairs keeps the number of
\* requests it still waits for
RequestsPerRepo == 2

NewBatch(rs, token) ==
  [ repos |-> rs, auth |-> token, remaining |-> RequestsPerRepo * Len(rs),
    status |-> "inflight" ]

InFlight(b) == b \in DOMAIN batches /\ batches[b].status = "inflight"

CanFetch == Len(batches) < MaxBatches

(***************************************************************************)
(* _fetchDataForRepos, after its await.                                    *)
(***************************************************************************)
\* releasesResponse.data.filter(r => !!r.published_at)
Published(releasesResponse) ==
  SelectSeq(releasesResponse, LAMBDA r : r.published_at # 0)

RECURSIVE SumSeq(_)
SumSeq(s) == IF s = <<>> THEN 0 ELSE Head(s) + SumSeq(Tail(s))

\* releases.reduce(... release.assets.reduce(... asset.download_count))
RECURSIVE TotalDownloads(_)
TotalDownloads(releases) ==
  IF releases = <<>> THEN 0
  ELSE SumSeq(Head(releases).assets) + TotalDownloads(Tail(releases))

\* the row pushed for one entry of results
SummaryRow(repo, releasesResponse, repoDetailsResponse) ==
  LET releases == Published(releasesResponse)
  IN  [ identifier |-> Identifier(repo),
        stars |-> repoDetailsResponse.stargazers_count,
        latestVersion |-> IF releases # <<>> THEN releases[1].tag_name
                          ELSE NotAvailable,
        lastUpdate |-> repoDetailsResponse.pushed_at,
        size |-> repoDetailsResponse.size,
        totalDownloads |-> TotalDownloads(releases),
        openIssues |-> repoDetailsResponse.open_issues_count ]

\* results of Promise.all(fetchPromises): in the order of fetchPromises, each
\* the pair [releasesResponse, repoDetailsResponse] of the repository the
\* requests were issued for
Results(batch) ==
  [ i \in 1..Len(batch.repos) |->
      [ releases |-> ServerReleases(Identifier(batch.repos[i])),
        details |-> ServerDetails(Identifier(batch.repos[i])) ] ]

\* RepoAt with the repositories the batch was issued for
RepoAt_FromBatch(batch, index) == <<batch.repos[index]>>

\* the repository results[index] is committed under: this._repos[index]
\* (undefined, here <<>>, when _repos is shorter by now)
RepoAt(batch, index) == IF index <= Len(repos) THEN <<repos[index]>> ELSE <<>>

\* the indexes of results whose `if (repo)` holds
Committed(batch) ==
  { i \in 1..Len(batch.repos) : RepoAt(batch, i) # <<>> }

\* the last index set under an identifier (Map.set overwrites)
LastIndexOf(batch, id) ==
  CHOOSE i \in Committed(batch) :
    /\ Identifier(RepoAt(batch, i)[1]) = id
    /\ \A j \in Committed(batch) :
         Identifier(RepoAt(batch, j)[1]) = id => j <= i

NewReleasesData(batch) ==
  [ id \in { Identifier(RepoAt(batch, i)[1]) : i \in Committed(batch) } |->
      Published(Results(batch)[LastIndexOf(batch, id)].releases) ]

NewDownloadsData(batch) ==
  [ id \in { Identifier(RepoAt(batch, i)[1]) : i \in Committed(batch) } |->
      TotalDownloads(Published(Results(batch)[LastIndexOf(batch, id)].releases)) ]

NewSummaryData(batch) ==
  [ i \in 1..Cardinality(Committed(batch)) |->
      SummaryRow(RepoAt(batch, i)[1], Results(batch)[i].releases,
                 Results(batch)[i].details) ]

\* CommitBatch without the finally block
CommitBatch_KeepsLoading(b) ==
  /\ releasesData' = NewReleasesData(batches[b])
  /\ downloadsData' = NewDownloadsData(batches[b])
  /\ repoSummaryData' = NewSummaryData(batches[b])
  /\ repoOrder' = RepoIds
  /\ lastCommit' = b
  /\ UNCHANGED << error, loading >>

\* the try block after the await, and finally
CommitBatch(b) ==
  /\ releasesData' = NewReleasesData(batches[b])
  /\ downloadsData' = NewDownloadsData(batches[b])
  /\ repoSummaryData' = NewSummaryData(batches[b])
  /\ repoOrder' = RepoIds
  /\ loading' = FALSE
  /\ lastCommit' = b
  /\ UNCHANGED error

\* DiscardBatch with the display order initialised on the failure path too
DiscardBatch_InitialisesOrder(b) ==
  /\ error' = ErrFetchRepoData
  /\ loading' = FALSE
  /\ repoOrder' = RepoIds
  /\ UNCHANGED << releasesData, downloadsData, repoSummaryData, lastCommit >>

\* the catch block, and finally
DiscardBatch(b) ==
  /\ error' = ErrFetchRepoData
  /\ loading' = FALSE
  /\ UNCHANGED << primary, lastCommit >>

\* does Promise.all(fetchPromises) resolve when one more request is answered
LastResponse(batch) == batch.remaining = 1

\* one request of batch b is answered, in any order; Promise.all resolves
\* with the last one
ResponseArrives(b) ==
  /\ InFlight(b)
  /\ batches[b].remaining > 0
  /\ IF LastResponse(batches[b])
       THEN /\ batches' = [batches EXCEPT ![b].remaining = 0, ![b].status = "committed"]
            /\ CommitBatch(b)
            /\ quiet' = FALSE
       ELSE /\ batches' = [batches EXCEPT ![b].remaining = @ - 1]
            /\ UNCHANGED << primary, loading, error, lastCommit, quiet >>
  /\ UNCHANGED << repos, stargazersData, issuesData, chartMetric, sortKey,
                  sortDirection, authError, githubToken, savedSets, storedSets,
                  url, confirmAction, confirmModal, supps, nops, lastOp, budget, coll, chart, download,
                  roundTrip >>

\* one request of batch b is rejected; Promise.all rejects with the first one
ResponseFails(b) ==
  /\ InFlight(b)
  /\ batches[b].remaining > 0
  /\ batches' = [batches EXCEPT ![b].status = "failed"]
  /\ DiscardBatch(b)
  /\ UNCHANGED << repos, stargazersData, issuesData, chartMetric, sortKey,
                  sortDirection, authError, githubToken, savedSets, storedSets,
                  url, confirmAction, confirmModal, supps, nops, lastOp, quiet,
                  budget, coll, chart, download, roundTrip >>

\* _fetchDataForRepos up to the await, called with _repos = rs
FetchDataForRepos(rs, auth) ==
  /\ loading' = TRUE
  /\ error' = ""
  /\ batches' = Append(batches, NewBatch(rs, auth))

NoAction == [kind |-> "none", setName |-> ""]

\* a user intent as recorded in lastOp
Op(kind, arg) == [kind |-> kind, arg |-> arg]

(***************************************************************************)
(* Engine start: constructor and connectedCallback (_readStateFromURL).    *)
(***************************************************************************)
InitUrls ==
  { Absent, Present(Join(<<IdAX>>)), Present(Join(<<IdAX, IdBX>>)),
    Present(Join(<<IdAX, IdAX>>)) }

InitStoredSets ==
  { Absent,
    Present({ <<"X", <<IdAX, IdAY, IdBX>> >>, <<"Y", <<IdBX>> >> }) }

\* ReadStateFromURL reading the segments right to left
ReadStateFromURL_Reversed(u) ==
  IF u.has
    THEN LET parts == Split(u.value, ",")
         IN  ParseRepoList([i \in DOMAIN parts |-> parts[Len(parts) + 1 - i]])
    ELSE <<>>

\* _readStateFromURL
ReadStateFromURL(u) ==
  IF u.has THEN ParseRepoList(Split(u.value, ",")) ELSE <<>>

\* a source with no last page
Unbounded == -1

\* no collector has been called
IdleCollector ==
  [ status |-> "idle", kind |-> "stars",
    source |-> [length |-> 0, tail |-> 1, pulls |-> "none"],
    pageCount |-> 0, items |-> <<>>, calls |-> 0 ]

\* the chart-display component before its first update
NoChart ==
  [ drawn |-> FALSE, metric |-> "totalDownloads", repoOrder |-> <<>>,
    data |-> EmptyMap, datasets |-> <<>> ]

\* nothing has been exported (rows: the summary rows the file was written
\* from, their fields as texts)
NoDownload == [done |-> FALSE, rows |-> <<>>, content |-> <<>>]

\* no save-set, clear-all, load-set sequence is under way
NoRoundTrip == [phase |-> "none", name |-> "", shown |-> <<>>]

\* the state after the constructor and connectedCallback, for a credential
\* in storage, a stored mapping of sets and a location, with ops intents to come
Start(tokens, stored, urls, ops) ==
  /\ githubToken \in tokens
  /\ storedSets \in stored
  /\ savedSets = IF storedSets.has THEN JsonParse(storedSets.value) ELSE EmptyMap
  /\ url \in urls
  /\ repos = ReadStateFromURL(url)
  /\ releasesData = EmptyMap
  /\ downloadsData = EmptyMap
  /\ stargazersData = EmptyMap
  /\ issuesData = EmptyMap
  /\ repoSummaryData = <<>>
  /\ repoOrder = <<>>
  /\ chartMetric = "totalDownloads"
  /\ sortKey = "totalDownloads"
  /\ sortDirection = "desc"
  /\ loading = (Len(repos) > 0)
  /\ error = ""
  /\ authError = ""
  /\ confirmAction = NoAction
  /\ confirmModal = FALSE
  /\ batches = IF Len(repos) > 0 THEN <<NewBatch(repos, githubToken)>> ELSE <<>>
  /\ supps = <<>>
  /\ lastCommit = 0
  /\ nops = 0
  /\ lastOp = Op("start", <<>>)
  /\ quiet = TRUE
  /\ budget = ops
  /\ roundTrip = NoRoundTrip
  /\ coll = IdleCollector
  /\ chart = NoChart
  /\ download = NoDownload

Init == Start(Tokens, InitStoredSets, InitUrls, MaxOps)

(***************************************************************************)
(* User intents.                                                           *)
(***************************************************************************)
\* the save-set, clear-all, load-set sequence after one more intent: a
\* save-set starts it and notes the order on display, the clear-all and the
\* load-set of the same name continue it, any other intent ends it
Advance(op) ==
  IF op.kind = "saveSet"
    THEN [phase |-> "saved", name |-> op.arg[1], shown |-> repoOrder]
  ELSE IF op.kind = "clearAll" /\ roundTrip.phase = "saved"
    THEN [roundTrip EXCEPT !.phase = "clearing"]
  ELSE IF op.kind = "loadSet" /\ roundTrip.phase = "cleared"
            /\ op.arg = <<roundTrip.name>>
    THEN [roundTrip EXCEPT !.phase = "loaded"]
  ELSE NoRoundTrip

\* an intent raised on the page: the confirmation dialog is modal, so none
\* is raised while it shows
Intent(op) ==
  /\ nops < budget
  /\ ~ confirmModal
  /\ nops' = nops + 1
  /\ lastOp' = op
  /\ quiet' = TRUE
  /\ roundTrip' = Advance(op)
  /\ UNCHANGED << budget, coll, chart, download >>

\* HandleFormSubmit with the fetch issued for the new repository only
HandleFormSubmit_FetchesNewOnly(username, repository) ==
  LET newRepo == [username |-> username, repository |-> repository]
      adds == /\ username # "" /\ repository # ""
              /\ ~ \E i \in DOMAIN repos : repos[i] = newRepo
  IN  /\ Intent(Op(IF adds THEN "add" ELSE "addRefused", Identifier(newRepo)))
      /\ adds => CanFetch
      /\ IF adds
           THEN /\ repos' = Append(repos, newRepo)
                /\ FetchDataForRepos(<<newRepo>>, githubToken)
                /\ url' = UpdateURL(repoOrder)
           ELSE UNCHANGED << repos, loading, error, batches, url >>
      /\ UNCHANGED << primary, stargazersData, issuesData, chartMetric, sortKey,
                      sortDirection, authError, githubToken, savedSets,
                      storedSets, confirmAction, confirmModal, supps, lastCommit >>

\* add-repo: the two form fields hold username and repository at the submit
HandleFormSubmit(username, repository) ==
  LET newRepo == [username |-> username, repository |-> repository]
      adds == /\ username # "" /\ repository # ""
              /\ ~ \E i \in DOMAIN repos : repos[i] = newRepo
  IN  /\ Intent(Op(IF adds THEN "add" ELSE "addRefused", Identifier(newRepo)))
      /\ adds => CanFetch
      /\ IF adds
           THEN /\ repos' = Append(repos, newRepo)
                /\ FetchDataForRepos(repos', githubToken)
                /\ url' = UpdateURL(repoOrder)
           ELSE UNCHANGED << repos, loading, error, batches, url >>
      /\ UNCHANGED << primary, stargazersData, issuesData, chartMetric, sortKey,
                      sortDirection, authError, githubToken, savedSets,
                      storedSets, confirmAction, confirmModal, supps, lastCommit >>

\* remove-repo: the close button of a pill; a pill is rendered for every
\* identifier of _repoOrder that _repos.find resolves
Pills == SelectSeq(repoOrder, LAMBDA id : \E i \in DOMAIN repos : Identifier(repos[i]) = id)

\* HandleRemoveRepo without the two deletes from the supplemental caches
HandleRemoveRepo_KeepsCaches(repoIdentifier) ==
  /\ Intent(Op("remove", repoIdentifier))
  /\ Len(repos) > 0
  /\ repoIdentifier \in Range(Pills)
  /\ repos' = SelectSeq(repos, LAMBDA r : Identifier(r) # repoIdentifier)
  /\ repoOrder' = SelectSeq(repoOrder, LAMBDA id : id # repoIdentifier)
  /\ releasesData' = MapDelete(releasesData, repoIdentifier)
  /\ downloadsData' = MapDelete(downloadsData, repoIdentifier)
  /\ repoSummaryData' =
       SelectSeq(repoSummaryData, LAMBDA d : d.identifier # repoIdentifier)
  /\ url' = UpdateURL(repoOrder')
  /\ UNCHANGED << stargazersData, issuesData, chartMetric, sortKey, sortDirection,
                  loading, error, authError, githubToken, savedSets, storedSets,
                  confirmAction, confirmModal, batches, supps, lastCommit >>

HandleRemoveRepo(repoIdentifier) ==
  /\ Intent(Op("remove", repoIdentifier))
  /\ Len(repos) > 0
  /\ repoIdentifier \in Range(Pills)
  /\ repos' = SelectSeq(repos, LAMBDA r : Identifier(r) # repoIdentifier)
  /\ repoOrder' = SelectSeq(repoOrder, LAMBDA id : id # repoIdentifier)
  /\ releasesData' = MapDelete(releasesData, repoIdentifier)
  /\ downloadsData' = MapDelete(downloadsData, repoIdentifier)
  /\ stargazersData' = MapDelete(stargazersData, repoIdentifier)
  /\ issuesData' = MapDelete(issuesData, repoIdentifier)
  /\ repoSummaryData' =
       SelectSeq(repoSummaryData, LAMBDA d : d.identifier # repoIdentifier)
  /\ url' = UpdateURL(repoOrder')
  /\ UNCHANGED << chartMetric, sortKey, sortDirection, loading, error, authError,
                  githubToken, savedSets, storedSets, confirmAction, confirmModal,
                  batches, supps, lastCommit >>


(***************************************************************************)
(* set-manual-order: SortableJS onEnd after one pill was dragged from      *)
(* position from to position to; newOrder is read off the pills.           *)
(***************************************************************************)
RemoveAt(s, i) == SubSeq(s, 1, i - 1) \o SubSeq(s, i + 1, Len(s))

InsertAt(s, i, x) == SubSeq(s, 1, i - 1) \o <<x>> \o SubSeq(s, i, Len(s))

MoveItem(s, from, to) == InsertAt(RemoveAt(s, from), to, s[from])

\* SetNewOrder without the move to the manual sort key
SetNewOrder_KeepsSortKey(newOrder) ==
  /\ repoOrder' = newOrder
  /\ sortKey' = sortKey
  /\ url' = UpdateURL(repoOrder')

\* _setNewOrder
SetNewOrder(newOrder) ==
  /\ repoOrder' = newOrder
  /\ sortKey' = "manual"
  /\ url' = UpdateURL(repoOrder')

DragPill(from, to) ==
  /\ Intent(Op("manualOrder", Join(MoveItem(Pills, from, to))))
  /\ Len(repos) > 0
  /\ from \in DOMAIN Pills
  /\ to \in DOMAIN Pills
  /\ SetNewOrder(MoveItem(Pills, from, to))
  /\ UNCHANGED << repos, releasesData, downloadsData, stargazersData, issuesData,
                  repoSummaryData, chartMetric, sortDirection, loading, error,
                  authError, githubToken, savedSets, storedSets, confirmAction,
                  confirmModal, batches, supps, lastCommit >>

(***************************************************************************)
(* request-sort: a click on a column header of the summary table.          *)
(***************************************************************************)
\* headerKeys of the summary table
HeaderKeys ==
  {"stars", "openIssues", "latestVersion", "lastUpdate", "size", "totalDownloads"}

\* _renderSortIcon of the summary table: the indicator a column header shows
RenderSortIcon(key) ==
  IF sortKey # key THEN ""
  ELSE IF sortDirection = "asc" THEN "bi-sort-up" ELSE "bi-sort-down"

\* the place of a string in the order of JavaScript's < on strings
StringRank(str) ==
  CASE str = "N/A" -> 0
    [] str = "v1" -> 1
    [] str = "v2" -> 2
    [] OTHER -> 3

\* a[newSortKey], as something < and > compare
KeyValue(row, key) ==
  CASE key = "stars" -> row.stars
    [] key = "openIssues" -> row.openIssues
    [] key = "latestVersion" -> StringRank(row.latestVersion)
    [] key = "lastUpdate" -> row.lastUpdate
    [] key = "size" -> row.size
    [] OTHER -> row.totalDownloads

\* Comparator without the negation for the descending direction
Comparator_IgnoresDirection(a, b, key, direction) ==
  IF KeyValue(a, key) > KeyValue(b, key) THEN 1
  ELSE IF KeyValue(a, key) < KeyValue(b, key) THEN -1
  ELSE 0

\* the comparator handed to Array.prototype.sort
Comparator(a, b, key, direction) ==
  LET comparison == IF KeyValue(a, key) > KeyValue(b, key) THEN 1
                    ELSE IF KeyValue(a, key) < KeyValue(b, key) THEN -1
                    ELSE 0
  IN  IF direction = "asc" THEN comparison ELSE -comparison

\* Array.prototype.sort is stable: x goes before the first element that
\* compares greater than it
InsertSorted(sorted, x, key, direction) ==
  LET after == { i \in DOMAIN sorted : Comparator(sorted[i], x, key, direction) > 0 }
  IN  IF after = {} THEN Append(sorted, x)
      ELSE InsertAt(sorted, CHOOSE i \in after : \A j \in after : i <= j, x)

RECURSIVE SortFrom(_, _, _, _)
SortFrom(sorted, rest, key, direction) ==
  IF rest = <<>> THEN sorted
  ELSE SortFrom(InsertSorted(sorted, Head(rest), key, direction), Tail(rest),
                key, direction)

Sorted(rows, key, direction) == SortFrom(<<>>, rows, key, direction)

\* NewSortDirection with the default direction for the active key too
NewSortDirection_AlwaysDefault(newSortKey) ==
  IF newSortKey = "latestVersion" \/ newSortKey = "lastUpdate"
    THEN "asc" ELSE "desc"

\* NewSortDirection with the previous direction flipped for any key
NewSortDirection_AlwaysToggles(newSortKey) ==
  IF sortDirection = "asc" THEN "desc" ELSE "asc"

\* the direction a click on newSortKey selects
NewSortDirection(newSortKey) ==
  IF sortKey = newSortKey
    THEN (IF sortDirection = "asc" THEN "desc" ELSE "asc")
    ELSE (IF newSortKey = "latestVersion" \/ newSortKey = "lastUpdate"
            THEN "asc" ELSE "desc")

\* the cache a column is drawn from
Cache(kind) == IF kind = "stars" THEN stargazersData ELSE issuesData

\* ReposToFetch without the look into the cache
ReposToFetch_All(kind) == repos

\* reposToFetch: the entries of _repos with no entry in the cache
ReposToFetch(kind) ==
  SelectSeq(repos, LAMBDA r : Identifier(r) \notin DOMAIN Cache(kind))

NewSupp(kind, rs, auth) ==
  [ kind |-> kind, repos |-> rs, auth |-> auth, pending |-> 1..Len(rs),
    status |-> "inflight" ]

CanFetchSupplemental == Len(supps) < MaxSupps

\* PolicyGated with the star column gated only
PolicyGated_StarsOnly(newSortKey) ==
  newSortKey = "stars" /\ githubToken = ""

\* is the column refused for want of a credential
PolicyGated(newSortKey) ==
  (newSortKey = "stars" \/ newSortKey = "openIssues") /\ githubToken = ""

\* does the click start a supplemental fetch
FetchesSupplemental(newSortKey) ==
  /\ ~ PolicyGated(newSortKey)
  /\ newSortKey \in {"stars", "openIssues"}
  /\ Len(ReposToFetch(newSortKey)) > 0

\* HandleRequestSort that leaves the chart metric as it was
HandleRequestSort_KeepsMetric(newSortKey) ==
  /\ Intent(Op(IF PolicyGated(newSortKey) THEN "sortRefused" ELSE "sort", <<newSortKey>>))
  /\ Len(repos) > 0
  /\ Len(repoSummaryData) > 0
  /\ FetchesSupplemental(newSortKey) => CanFetchSupplemental
  /\ IF PolicyGated(newSortKey)
       THEN /\ authError' = ErrAuthRequired
            /\ UNCHANGED << sortKey, sortDirection, chartMetric, repoOrder, url,
                            loading, supps >>
       ELSE /\ authError' = ""
            /\ sortKey' = newSortKey
            /\ sortDirection' = NewSortDirection(newSortKey)
            /\ chartMetric' = chartMetric
            /\ repoOrder' = MapSeq(Sorted(repoSummaryData, newSortKey, sortDirection'),
                                   LAMBDA row : row.identifier)
            /\ url' = UpdateURL(repoOrder')
            /\ IF FetchesSupplemental(newSortKey)
                 THEN /\ loading' = TRUE
                      /\ supps' = Append(supps, NewSupp(newSortKey,
                                           ReposToFetch(newSortKey), githubToken))
                 ELSE UNCHANGED << loading, supps >>
  /\ UNCHANGED << repos, releasesData, downloadsData, stargazersData, issuesData,
                  repoSummaryData, error, githubToken, savedSets, storedSets,
                  confirmAction, confirmModal, batches, lastCommit >>

HandleRequestSort(newSortKey) ==
  /\ Intent(Op(IF PolicyGated(newSortKey) THEN "sortRefused" ELSE "sort", <<newSortKey>>))
  /\ Len(repos) > 0
  /\ Len(repoSummaryData) > 0
  /\ FetchesSupplemental(newSortKey) => CanFetchSupplemental
  /\ IF PolicyGated(newSortKey)
       THEN /\ authError' = ErrAuthRequired
            /\ UNCHANGED << sortKey, sortDirection, chartMetric, repoOrder, url,
                            loading, supps >>
       ELSE /\ authError' = ""
            /\ sortKey' = newSortKey
            /\ sortDirection' = NewSortDirection(newSortKey)
            /\ chartMetric' = newSortKey
            /\ repoOrder' = MapSeq(Sorted(repoSummaryData, newSortKey, sortDirection'),
                                   LAMBDA row : row.identifier)
            /\ url' = UpdateURL(repoOrder')
            /\ IF FetchesSupplemental(newSortKey)
                 THEN /\ loading' = TRUE
                      /\ supps' = Append(supps, NewSupp(newSortKey,
                                           ReposToFetch(newSortKey), githubToken))
                 ELSE UNCHANGED << loading, supps >>
  /\ UNCHANGED << repos, releasesData, downloadsData, stargazersData, issuesData,
                  repoSummaryData, error, githubToken, savedSets, storedSets,
                  confirmAction, confirmModal, batches, lastCommit >>

\* what the collector of a kind resolves to
ServerSupplemental(kind, id) ==
  IF kind = "stars" THEN ServerStargazers(id) ELSE ServerIssues(id)

\* new Map(cache) with results[index] set under reposToFetch[index]
MergedCache(supp) ==
  [ id \in DOMAIN Cache(supp.kind) \cup { Identifier(supp.repos[i]) : i \in DOMAIN supp.repos } |->
      IF \E i \in DOMAIN supp.repos : Identifier(supp.repos[i]) = id
        THEN ServerSupplemental(supp.kind, id)
        ELSE Cache(supp.kind)[id] ]

\* one collector of supplemental fetch s resolves; Promise.all resolves with
\* the last one
SupplementalArrives(s, i) ==
  /\ s \in DOMAIN supps
  /\ supps[s].status = "inflight"
  /\ i \in supps[s].pending
  /\ IF supps[s].pending = {i}
       THEN /\ supps' = [supps EXCEPT ![s].pending = {}, ![s].status = "merged"]
            /\ stargazersData' = IF supps[s].kind = "stars"
                                   THEN MergedCache(supps[s]) ELSE stargazersData
            /\ issuesData' = IF supps[s].kind = "stars"
                               THEN issuesData ELSE MergedCache(supps[s])
            /\ loading' = FALSE
       ELSE /\ supps' = [supps EXCEPT ![s].pending = @ \ {i}]
            /\ UNCHANGED << stargazersData, issuesData, loading >>
  /\ UNCHANGED << repos, releasesData, downloadsData, repoSummaryData, repoOrder,
                  chartMetric, sortKey, sortDirection, error, authError,
                  githubToken, savedSets, storedSets, url, confirmAction,
                  confirmModal, batches, lastCommit, nops, lastOp, quiet,
                  budget, coll, chart, download, roundTrip >>

\* SupplementalFails with the cache of the kind emptied
SupplementalFails_DropsCache(s, i) ==
  /\ s \in DOMAIN supps
  /\ supps[s].status = "inflight"
  /\ i \in supps[s].pending
  /\ supps' = [supps EXCEPT ![s].pending = {}, ![s].status = "failed"]
  /\ error' = IF supps[s].kind = "stars" THEN ErrFetchStarHistory
              ELSE ErrFetchIssueHistory
  /\ loading' = FALSE
  /\ stargazersData' = IF supps[s].kind = "stars" THEN EmptyMap ELSE stargazersData
  /\ issuesData' = IF supps[s].kind = "stars" THEN issuesData ELSE EmptyMap
  /\ UNCHANGED << repos, releasesData, downloadsData,
                  repoSummaryData, repoOrder, chartMetric, sortKey, sortDirection,
                  authError, githubToken, savedSets, storedSets, url,
                  confirmAction, confirmModal, batches, lastCommit, nops, lastOp,
                  quiet, budget, coll, chart, download, roundTrip >>

\* one collector of supplemental fetch s rejects; Promise.all rejects with it
SupplementalFails(s, i) ==
  /\ s \in DOMAIN supps
  /\ supps[s].status = "inflight"
  /\ i \in supps[s].pending
  /\ supps' = [supps EXCEPT ![s].pending = {}, ![s].status = "failed"]
  /\ error' = IF supps[s].kind = "stars" THEN ErrFetchStarHistory
              ELSE ErrFetchIssueHistory
  /\ loading' = FALSE
  /\ UNCHANGED << repos, releasesData, downloadsData, stargazersData, issuesData,
                  repoSummaryData, repoOrder, chartMetric, sortKey, sortDirection,
                  authError, githubToken, savedSets, storedSets, url,
                  confirmAction, confirmModal, batches, lastCommit, nops, lastOp,
                  quiet, budget, coll, chart, download, roundTrip >>

(***************************************************************************)
(* clear-all, delete-set and the confirmation dialog.                      *)
(***************************************************************************)
\* _showConfirmation
ShowConfirmation(onConfirm) ==
  /\ confirmAction' = onConfirm
  /\ confirmModal' = TRUE

HandleClearAllRepos ==
  /\ Intent(Op("clearAll", <<>>))
  /\ Len(repos) > 0
  /\ ShowConfirmation([kind |-> "clearAll", setName |-> ""])
  /\ UNCHANGED << repos, releasesData, downloadsData, stargazersData, issuesData,
                  repoSummaryData, repoOrder, chartMetric, sortKey, sortDirection,
                  loading, error, authError, githubToken, savedSets, storedSets,
                  url, batches, supps, lastCommit >>

\* the delete button of a set in the manage-sets dialog
HandleDeleteSet(setName) ==
  /\ Intent(Op("deleteSet", <<setName>>))
  /\ setName \in DOMAIN savedSets
  /\ ShowConfirmation([kind |-> "deleteSet", setName |-> setName])
  /\ UNCHANGED << repos, releasesData, downloadsData, stargazersData, issuesData,
                  repoSummaryData, repoOrder, chartMetric, sortKey, sortDirection,
                  loading, error, authError, githubToken, savedSets, storedSets,
                  url, batches, supps, lastCommit >>

\* clearAction of _handleClearAllRepos
ClearAction ==
  /\ repos' = <<>>
  /\ releasesData' = EmptyMap
  /\ downloadsData' = EmptyMap
  /\ stargazersData' = EmptyMap
  /\ issuesData' = EmptyMap
  /\ repoSummaryData' = <<>>
  /\ repoOrder' = <<>>
  /\ error' = ""
  /\ authError' = ""
  /\ url' = UpdateURL(repoOrder')
  /\ UNCHANGED << savedSets, storedSets >>

\* SaveSetsToStorage writing the mapping as it was before the change
SaveSetsToStorage_Stale == storedSets' = Present(Stringify(savedSets))

\* _saveSetsToStorage
SaveSetsToStorage == storedSets' = Present(Stringify(savedSets'))

\* deleteAction of _handleDeleteSet
DeleteAction(setName) ==
  /\ savedSets' = MapDelete(savedSets, setName)
  /\ SaveSetsToStorage
  /\ UNCHANGED << repos, releasesData, downloadsData, stargazersData, issuesData,
                  repoSummaryData, repoOrder, error, authError, url >>

\* the confirm button of the dialog
HandleConfirmAction ==
  /\ confirmModal
  /\ IF confirmAction.kind = "clearAll" THEN ClearAction
     ELSE IF confirmAction.kind = "deleteSet" THEN DeleteAction(confirmAction.setName)
     ELSE UNCHANGED << repos, releasesData, downloadsData, stargazersData,
                       issuesData, repoSummaryData, repoOrder, error, authError,
                       url, savedSets, storedSets >>
  /\ confirmModal' = FALSE
  /\ confirmAction' = NoAction
  /\ UNCHANGED << chartMetric, sortKey, sortDirection, loading, githubToken,
                  batches, supps, lastCommit, nops, quiet, budget, coll, chart, download >>
  /\ lastOp' = Op("confirm", <<confirmAction.kind>>)
  /\ roundTrip' = IF roundTrip.phase = "clearing" /\ confirmAction.kind = "clearAll"
                    THEN [roundTrip EXCEPT !.phase = "cleared"]
                    ELSE NoRoundTrip

\* the cancel and close buttons of the dialog (data-bs-dismiss)
DismissConfirmation ==
  /\ confirmModal
  /\ confirmModal' = FALSE
  /\ UNCHANGED << repos, releasesData, downloadsData, stargazersData, issuesData,
                  repoSummaryData, repoOrder, chartMetric, sortKey, sortDirection,
                  loading, error, authError, githubToken, savedSets, storedSets,
                  url, confirmAction, batches, supps, lastCommit, nops, quiet,
                  budget, coll, chart, download >>
  /\ lastOp' = Op("dismiss", <<>>)
  /\ roundTrip' = NoRoundTrip

(***************************************************************************)
(* Saved sets.                                                             *)
(***************************************************************************)
\* save-set: _handleSaveSetClick opens the dialog when _repos is not empty,
\* _handleSaveSetConfirm stores under the trimmed, non-empty name
HandleSaveSetConfirm(setName) ==
  /\ Intent(Op("saveSet", <<setName>>))
  /\ Len(repos) > 0
  /\ savedSets' = MapSet(savedSets, setName, RepoIds)
  /\ SaveSetsToStorage
  /\ UNCHANGED << repos, releasesData, downloadsData, stargazersData, issuesData,
                  repoSummaryData, repoOrder, chartMetric, sortKey, sortDirection,
                  loading, error, authError, githubToken, url, confirmAction,
                  confirmModal, batches, supps, lastCommit >>

\* HandleUpdateSet appending to the stored list instead of replacing it
HandleUpdateSet_Appends(setName) ==
  /\ Intent(Op("updateSet", <<setName>>))
  /\ Len(repos) > 0
  /\ setName \in DOMAIN savedSets
  /\ savedSets' = MapSet(savedSets, setName, savedSets[setName] \o RepoIds)
  /\ SaveSetsToStorage
  /\ UNCHANGED << repos, releasesData, downloadsData, stargazersData, issuesData,
                  repoSummaryData, repoOrder, chartMetric, sortKey, sortDirection,
                  loading, error, authError, githubToken, url, confirmAction,
                  confirmModal, batches, supps, lastCommit >>

\* update-set: the button is disabled while _repos is empty
HandleUpdateSet(setName) ==
  /\ Intent(Op("updateSet", <<setName>>))
  /\ Len(repos) > 0
  /\ setName \in DOMAIN savedSets
  /\ savedSets' = MapSet(savedSets, setName, RepoIds)
  /\ SaveSetsToStorage
  /\ UNCHANGED << repos, releasesData, downloadsData, stargazersData, issuesData,
                  repoSummaryData, repoOrder, chartMetric, sortKey, sortDirection,
                  loading, error, authError, githubToken, url, confirmAction,
                  confirmModal, batches, supps, lastCommit >>

\* load-set
HandleLoadSet(setName) ==
  /\ Intent(Op("loadSet", <<setName>>))
  /\ setName \in DOMAIN savedSets
  /\ CanFetch
  /\ repos' = ParseRepoList(savedSets[setName])
  /\ FetchDataForRepos(repos', githubToken)
  /\ url' = UpdateURL(repoOrder)
  /\ UNCHANGED << primary, stargazersData, issuesData, chartMetric, sortKey,
                  sortDirection, authError, githubToken, savedSets, storedSets,
                  confirmAction, confirmModal, supps, lastCommit >>

(***************************************************************************)
(* set-credential: _handleSaveToken / _handleClearToken.                   *)
(***************************************************************************)
\* UpdateAuthToken with the refetch issued under the previous credential
UpdateAuthToken_OldAuth(token) ==
  /\ Intent(Op("setCredential", <<token>>))
  /\ Len(repos) > 0 => CanFetch
  /\ githubToken' = token
  /\ IF Len(repos) > 0
       THEN FetchDataForRepos(repos, githubToken)
       ELSE UNCHANGED << loading, error, batches >>
  /\ UNCHANGED << repos, primary, stargazersData, issuesData, chartMetric, sortKey,
                  sortDirection, authError, savedSets, storedSets, url,
                  confirmAction, confirmModal, supps, lastCommit >>

\* _updateAuthToken
UpdateAuthToken(token) ==
  /\ Intent(Op("setCredential", <<token>>))
  /\ Len(repos) > 0 => CanFetch
  /\ githubToken' = token
  /\ IF Len(repos) > 0
       THEN FetchDataForRepos(repos, token)
       ELSE UNCHANGED << loading, error, batches >>
  /\ UNCHANGED << repos, primary, stargazersData, issuesData, chartMetric, sortKey,
                  sortDirection, authError, savedSets, storedSets, url,
                  confirmAction, confirmModal, supps, lastCommit >>

Next ==
  \/ \E b \in DOMAIN batches : ResponseArrives(b)
  \/ \E b \in DOMAIN batches : ResponseFails(b)
  \/ \E s \in DOMAIN supps : \E i \in supps[s].pending : SupplementalArrives(s, i)
  \/ \E s \in DOMAIN supps : \E i \in supps[s].pending : SupplementalFails(s, i)
  \/ \E f \in FormInputs : HandleFormSubmit(f[1], f[2])
  \/ \E id \in Range(repoOrder) : HandleRemoveRepo(id)
  \/ \E from, to \in DOMAIN repoOrder : DragPill(from, to)
  \/ \E key \in HeaderKeys : HandleRequestSort(key)
  \/ HandleClearAllRepos
  \/ \E name \in SetNames : HandleDeleteSet(name)
  \/ HandleConfirmAction
  \/ DismissConfirmation
  \/ \E name \in SetNames : HandleSaveSetConfirm(name)
  \/ \E name \in SetNames : HandleUpdateSet(name)
  \/ \E name \in SetNames : HandleLoadSet(name)
  \/ \E token \in Tokens : UpdateAuthToken(token)

Spec == Init /\ [][Next]_vars

(***************************************************************************)
(* The engine started on the location repos=a/x,b/x with no credential and *)
(* no stored sets, and the intents of a save-set, clear-all, load-set      *)
(* sequence that follows a reordering.                                     *)
(***************************************************************************)
InitRoundTrip ==
  Start({""}, {Absent}, {Present(Join(<<IdAX, IdBX>>))}, MaxOpsRoundTrip)

NextRoundTrip ==
  \/ \E b \in DOMAIN batches : ResponseArrives(b)
  \/ \E from, to \in DOMAIN repoOrder : DragPill(from, to)
  \/ \E key \in HeaderKeys : HandleRequestSort(key)
  \/ \E name \in SetNames : HandleSaveSetConfirm(name)
  \/ HandleClearAllRepos
  \/ HandleConfirmAction
  \/ \E name \in SetNames : HandleLoadSet(name)

SpecRoundTrip == InitRoundTrip /\ [][NextRoundTrip]_vars

(***************************************************************************)
(* The star and issue collectors.  A source is the list endpoint of one    *)
(* repository: length pages (Unbounded: a next page always exists), every  *)
(* page full but the last, which holds tail items.  The items carry their  *)
(* place in server order as their timestamp.  Pages hold PageSize items    *)
(* where the code asks for per_page: 100.                                  *)
(***************************************************************************)
MAX_STARGAZER_PAGES == 10
MAX_ISSUE_PAGES == 10

CollectorKinds == {"stars", "issues"}

\* which items of an issues page are pull requests
PullPatterns == {"none", "first", "all"}

Sources(kind) ==
  [ length : (0 .. MaxSourcePages) \cup {Unbounded},
    tail : 1 .. PageSize,
    pulls : IF kind = "issues" THEN PullPatterns ELSE {"none"} ]

\* the iterator has a page p
HasPage(source, p) == source.length = Unbounded \/ p <= source.length

PageLen(source, p) == IF p = source.length THEN source.tail ELSE PageSize

IsPull(source, pos) ==
  source.pulls = "all" \/ (source.pulls = "first" /\ pos = 1)

\* the item the server lists at place pos of page p
RawItem(kind, source, p, pos) ==
  LET at == (p - 1) * PageSize + pos
  IN  IF kind = "stars"
        THEN [starred_at |-> at]
        ELSE [created_at |-> at, closed_at |-> 0,
              pull_request |-> IsPull(source, pos)]

\* pageData of the p-th turn of the for await loop
PageData(kind, source, p) ==
  [pos \in 1 .. PageLen(source, p) |-> RawItem(kind, source, p, pos)]

NotPull(issue) == ~ issue.pull_request

Dates(i) == [created_at |-> i.created_at, closed_at |-> i.closed_at]

\* what one turn of the loop pushes
Pushed(kind, pageData) ==
  IF kind = "stars"
    THEN pageData
    ELSE MapSeq(SelectSeq(pageData, NotPull), Dates)

MaxPages(kind) ==
  IF kind = "stars" THEN MAX_STARGAZER_PAGES ELSE MAX_ISSUE_PAGES

\* the call of a collector: a fresh array, a fresh iterator, pageCount = 0
CallCollector(kind, source) ==
  /\ coll.status # "running"
  /\ coll.calls < MaxCalls
  /\ coll' = [ status |-> "running", kind |-> kind, source |-> source,
               pageCount |-> 0, items |-> <<>>, calls |-> coll.calls + 1 ]
  /\ UNCHANGED << engine, chart, download >>

\* one turn of the for await loop that breaks one page late
CollectPage_OneMore ==
  /\ coll.status = "running"
  /\ HasPage(coll.source, coll.pageCount + 1)
  /\ LET pageData == PageData(coll.kind, coll.source, coll.pageCount + 1)
         pageCount == coll.pageCount + 1
     IN  coll' = [coll EXCEPT
           !.items = @ \o Pushed(coll.kind, pageData),
           !.pageCount = pageCount,
           !.status = IF pageCount > MaxPages(coll.kind)
                        THEN "returned" ELSE "running"]
  /\ UNCHANGED << engine, chart, download >>

\* one turn of the for await loop: push the page, count it, break (and
\* return) at the limit
CollectPage ==
  /\ coll.status = "running"
  /\ HasPage(coll.source, coll.pageCount + 1)
  /\ LET pageData == PageData(coll.kind, coll.source, coll.pageCount + 1)
         pageCount == coll.pageCount + 1
     IN  coll' = [coll EXCEPT
           !.items = @ \o Pushed(coll.kind, pageData),
           !.pageCount = pageCount,
           !.status = IF pageCount >= MaxPages(coll.kind)
                        THEN "returned" ELSE "running"]
  /\ UNCHANGED << engine, chart, download >>

\* the iterator is exhausted: the loop ends and the array is returned
CollectorReturns ==
  /\ coll.status = "running"
  /\ ~ HasPage(coll.source, coll.pageCount + 1)
  /\ coll' = [coll EXCEPT !.status = "returned"]
  /\ UNCHANGED << engine, chart, download >>

\* an engine with nothing to show, whose collectors are called
InitCollectors == Start({""}, {Absent}, {Absent}, 0)

NextCollectors ==
  \/ \E kind \in CollectorKinds : \E source \in Sources(kind) :
       CallCollector(kind, source)
  \/ CollectPage
  \/ CollectorReturns

\* a collector that was called goes on: the server answers each page request
SpecCollectors ==
  /\ InitCollectors
  /\ [][NextCollectors]_vars
  /\ WF_vars(CollectPage)
  /\ WF_vars(CollectorReturns)

(***************************************************************************)
(* The chart-display component: the star and the open-issue series built   *)
(* from the event lists the engine hands over.  A timestamp is the value   *)
(* of new Date(...).getTime(); closed_at = 0 stands for null.              *)
(***************************************************************************)
StarEvents == { [starred_at |-> t] : t \in 1 .. MaxTime }

IssueEvents ==
  { [created_at |-> c, closed_at |-> d] :
      c \in 1 .. MaxTime, d \in 0 .. MaxTime }

\* the event lists a cache entry may hold
RECURSIVE Lists(_, _)
Lists(events, n) ==
  IF n = 0 THEN {<<>>}
  ELSE LET shorter == Lists(events, n - 1)
       IN  shorter \cup { Append(l, e) : l \in shorter, e \in events }

\* an issue is closed no earlier than it was created
WellFormed(issues) ==
  \A i \in DOMAIN issues :
    issues[i].closed_at = 0 \/ issues[i].closed_at >= issues[i].created_at

ChartInputs(metric) ==
  IF metric = "stars"
    THEN Lists(StarEvents, MaxStarEvents)
    ELSE { l \in Lists(IssueEvents, MaxIssueEvents) : WellFormed(l) }

\* SortByTime that leaves the events as they came
SortByTime_Unsorted(starEvents) == starEvents

\* Array.prototype.sort with (a, b) => time(a) - time(b): a stable sort
RECURSIVE InsertByTime(_, _)
InsertByTime(sorted, event) ==
  IF sorted = <<>> THEN <<event>>
  ELSE IF Head(sorted).starred_at - event.starred_at <= 0
    THEN <<Head(sorted)>> \o InsertByTime(Tail(sorted), event)
    ELSE <<event>> \o sorted

RECURSIVE SortByTime(_)
SortByTime(starEvents) ==
  IF starEvents = <<>> THEN <<>>
  ELSE InsertByTime(SortByTime(SubSeq(starEvents, 1, Len(starEvents) - 1)),
                    starEvents[Len(starEvents)])

\* sortedEvents.map(event => { cumulativeStars++; return { x, y } })
StarData(starEvents) ==
  LET sortedEvents == SortByTime(starEvents)
  IN  [i \in DOMAIN sortedEvents |-> [x |-> sortedEvents[i].starred_at, y |-> i]]

\* DeltaAt that forgets what the map holds for the time
DeltaAt_Forgets(eventsByTime, time) == 0

\* (eventsByTime.get(time) || 0)
DeltaAt(eventsByTime, time) ==
  IF time \in DOMAIN eventsByTime THEN eventsByTime[time] ELSE 0

\* issues.forEach: + 1 at the creation time, - 1 at the closing time if any
RECURSIVE EventsByTime(_, _)
EventsByTime(issues, eventsByTime) ==
  IF issues = <<>> THEN eventsByTime
  ELSE LET issue == Head(issues)
           created == MapSet(eventsByTime, issue.created_at,
                             DeltaAt(eventsByTime, issue.created_at) + 1)
           closed == IF issue.closed_at # 0
                       THEN MapSet(created, issue.closed_at,
                                   DeltaAt(created, issue.closed_at) - 1)
                       ELSE created
       IN  EventsByTime(Tail(issues), closed)

\* Array.from(keys).sort((a, b) => a - b)
RECURSIVE SortedTimes(_)
SortedTimes(times) ==
  IF times = {} THEN <<>>
  ELSE LET first == CHOOSE t \in times : \A u \in times : t <= u
       IN  <<first>> \o SortedTimes(times \ {first})

\* the for loop: openIssues += eventsByTime.get(time); data.push({ x, y })
RECURSIVE RunningCount(_, _, _)
RunningCount(sortedTimes, eventsByTime, openIssues) ==
  IF sortedTimes = <<>> THEN <<>>
  ELSE LET time == Head(sortedTimes)
           count == openIssues + eventsByTime[time]
       IN  <<[x |-> time, y |-> count]>>
             \o RunningCount(Tail(sortedTimes), eventsByTime, count)

\* RunningCount without the starting point before the first event
IssueData_NoAnchor(issues) ==
  LET eventsByTime == EventsByTime(issues, EmptyMap)
      sortedTimes == SortedTimes(DOMAIN eventsByTime)
  IN  RunningCount(sortedTimes, eventsByTime, 0)

\* the data of one repository's open-issue series
IssueData(issues) ==
  LET eventsByTime == EventsByTime(issues, EmptyMap)
      sortedTimes == SortedTimes(DOMAIN eventsByTime)
      start == IF sortedTimes # <<>>
                 THEN <<[x |-> sortedTimes[1] - 1, y |-> 0]>>
                 ELSE <<>>
  IN  start \o RunningCount(sortedTimes, eventsByTime, 0)

\* Array.from(map.keys()): the keys in insertion order (the maps handed
\* over here hold one key at most)
RECURSIVE MapKeys(_)
MapKeys(keys) ==
  IF keys = {} THEN <<>>
  ELSE LET k == CHOOSE x \in keys : TRUE
       IN  <<k>> \o MapKeys(keys \ {k})

\* order.forEach: a repository with no entry or an empty list is skipped
RECURSIVE Datasets(_, _, _)
Datasets(order, data, metric) ==
  IF order = <<>> THEN <<>>
  ELSE LET repoIdentifier == Head(order)
           events == IF repoIdentifier \in DOMAIN data
                       THEN data[repoIdentifier] ELSE <<>>
           dataset == IF events = <<>> THEN <<>>
                      ELSE <<[ label |-> repoIdentifier,
                               data |-> IF metric = "stars"
                                          THEN StarData(events)
                                          ELSE IssueData(events) ]>>
       IN  dataset \o Datasets(Tail(order), data, metric)

\* _getStarChartConfig / _getIssueChartConfig: the datasets, for repoOrder
\* or, when it is empty, for the keys of the map
GetChartConfig(metric, order, data) ==
  Datasets(IF Len(order) > 0 THEN order ELSE MapKeys(DOMAIN data),
           data, metric)

\* the component is handed its properties and builds the configuration
UpdateChart(metric, order, data) ==
  /\ ~ chart.drawn
  /\ chart' = [ drawn |-> TRUE, metric |-> metric, repoOrder |-> order,
                data |-> data, datasets |-> GetChartConfig(metric, order, data) ]
  /\ UNCHANGED << engine, coll, download >>

\* the component is taken off the page
RemoveChart ==
  /\ chart.drawn
  /\ chart' = NoChart
  /\ UNCHANGED << engine, coll, download >>

ChartMetrics == {"stars", "openIssues"}

\* the cache handed over: empty, or the entry of one repository
ChartData(metric) ==
  {EmptyMap} \cup { MapSet(EmptyMap, IdAX, events) : events \in ChartInputs(metric) }

InitCharts == Start({""}, {Absent}, {Absent}, 0)

NextCharts ==
  \/ \E metric \in ChartMetrics : \E data \in ChartData(metric) :
       \E order \in {<<>>, <<IdAX>>} : UpdateChart(metric, order, data)
  \/ RemoveChart

SpecCharts == InitCharts /\ [][NextCharts]_vars

(***************************************************************************)
(* The CSV export.  A text is the sequence of its characters; a run of     *)
(* characters none of which is a comma, a double quote or a newline is     *)
(* kept as one element.                                                    *)
(***************************************************************************)
Comma == ","
Quote == "\""
Newline == "\n"

\* Array.prototype.join(sep) over texts
RECURSIVE JoinWith(_, _)
JoinWith(texts, sep) ==
  IF texts = <<>> THEN <<>>
  ELSE IF Len(texts) = 1 THEN texts[1]
  ELSE texts[1] \o <<sep>> \o JoinWith(Tail(texts), sep)

\* String(n) for a number
Str(n) == <<ToString(n)>>

\* s.replace(/"/g, '""')
RECURSIVE DoubleQuotes(_)
DoubleQuotes(s) ==
  IF s = <<>> THEN <<>>
  ELSE (IF Head(s) = Quote THEN <<Quote, Quote>> ELSE <<Head(s)>>)
         \o DoubleQuotes(Tail(s))

\* s.includes(',') || s.includes('"') || s.includes('\n')
NeedsQuoting(s) == \E i \in DOMAIN s : s[i] \in {Comma, Quote, Newline}

\* escapeCsv that wraps and leaves the quotes inside as they are
EscapeCsv_KeepsQuotes(s) ==
  IF NeedsQuoting(s) THEN <<Quote>> \o s \o <<Quote>> ELSE s

\* escapeCsv
EscapeCsv(s) ==
  IF NeedsQuoting(s) THEN <<Quote>> \o DoubleQuotes(s) \o <<Quote>> ELSE s

\* the array joined into one data row, for a row of the summary whose
\* fields are texts
CsvFields(repo) ==
  << EscapeCsv(repo.identifier), repo.stars, EscapeCsv(repo.latestVersion),
     repo.lastUpdate, repo.size, repo.totalDownloads >>

\* the fields of a summary row as the texts String(...) and join make of them
Texts(repo) ==
  [ identifier |-> repo.identifier,
    stars |-> Str(repo.stars),
    latestVersion |-> Tok(repo.latestVersion),
    lastUpdate |-> Str(repo.lastUpdate),
    size |-> Str(repo.size),
    totalDownloads |-> Str(repo.totalDownloads) ]

CsvHeaders ==
  << <<"Repository">>, <<"Stars">>, <<"Latest Version">>, <<"Last Update">>,
     <<"Size (KB)">>, <<"Total Downloads">> >>

\* this._repoSummaryData.find(d => d.identifier === identifier): the first
\* such row, or none
FindRow(identifier) ==
  LET at == { i \in DOMAIN repoSummaryData :
                repoSummaryData[i].identifier = identifier }
  IN  IF at = {} THEN <<>>
      ELSE <<repoSummaryData[CHOOSE i \in at : \A j \in at : i <= j]>>

\* this._repoOrder.map(find).filter(d => d !== undefined)
RECURSIVE SortedData(_)
SortedData(order) ==
  IF order = <<>> THEN <<>>
  ELSE FindRow(Head(order)) \o SortedData(Tail(order))

\* csvContent
CsvContent ==
  LET sortedData == SortedData(repoOrder)
      rows == [i \in DOMAIN sortedData |->
                 JoinWith(CsvFields(Texts(sortedData[i])), Comma)]
  IN  JoinWith(<<JoinWith(CsvHeaders, Comma)>> \o rows, Newline)

\* _handleExportCsv, from the button of the comparison bar: nothing is
\* handed to the browser when the summary is empty
HandleExportCsv ==
  /\ Len(repos) > 0
  /\ ~ download.done
  /\ download' = IF Len(repoSummaryData) = 0
                    THEN [done |-> TRUE, rows |-> <<>>, content |-> <<>>]
                    ELSE [ done |-> TRUE,
                           rows |-> MapSeq(SortedData(repoOrder), Texts),
                           content |-> CsvContent ]
  /\ UNCHANGED << engine, coll, chart >>

(***************************************************************************)
(* The engine with the export: started on any of the locations, without a  *)
(* credential and without stored sets.                                     *)
(***************************************************************************)
InitExport == Start({""}, {Absent}, InitUrls, MaxOpsExport)

NextExport ==
  \/ \E b \in DOMAIN batches : ResponseArrives(b)
  \/ \E b \in DOMAIN batches : ResponseFails(b)
  \/ \E input \in FormInputs : HandleFormSubmit(input[1], input[2])
  \/ \E id \in Range(repoOrder) : HandleRemoveRepo(id)
  \/ \E from, to \in DOMAIN repoOrder : DragPill(from, to)
  \/ \E key \in HeaderKeys : HandleRequestSort(key)
  \/ HandleExportCsv

SpecExport == InitExport /\ [][NextExport]_vars

(***************************************************************************)
(* The data rows of the export for summary rows with any text as           *)
(* identifier and as latest version.                                       *)
(***************************************************************************)
Characters == {"a", Comma, Quote, Newline}

RECURSIVE TextsUpTo(_)
TextsUpTo(n) ==
  IF n = 0 THEN {<<>>}
  ELSE LET shorter == TextsUpTo(n - 1)
       IN  shorter \cup { Append(s, c) : s \in shorter, c \in Characters }

CsvRepos ==
  [ identifier : TextsUpTo(MaxTextLen),
    stars : {Str(5)},
    latestVersion : TextsUpTo(MaxTextLen),
    lastUpdate : {Str(30)},
    size : {Str(100)},
    totalDownloads : {Str(12)} ]

\* the export of a summary of this one row: its data row
ExportRow(repo) ==
  /\ ~ download.done
  /\ download' = [ done |-> TRUE, rows |-> <<repo>>,
                   content |-> JoinWith(CsvFields(repo), Comma) ]
  /\ UNCHANGED << engine, coll, chart >>

\* the file is put away
DiscardDownload ==
  /\ download.done
  /\ download' = NoDownload
  /\ UNCHANGED << engine, coll, chart >>

InitCsv == Start({""}, {Absent}, {Absent}, 0)

NextCsv ==
  \/ \E repo \in CsvRepos : ExportRow(repo)
  \/ DiscardDownload

SpecCsv == InitCsv /\ [][NextCsv]_vars


(***************************************************************************)
(* Properties.                                                             *)
(***************************************************************************)
\* the step taken is the user intent of this kind
UserStep(kind) ==
  /\ << nops, lastOp >>' # << nops, lastOp >>
  /\ lastOp'.kind = kind

\* batch b settles in the step taken, with this outcome
Settles(b, outcome) ==
  /\ b \in DOMAIN batches
  /\ batches[b].status = "inflight"
  /\ batches'[b].status = outcome

\* how often id occurs in a sequence
Occurrences(s, id) == Cardinality({ i \in DOMAIN s : s[i] = id })

\* the identifiers of the rows of the summary
RowIds(rows) == MapSeq(rows, LAMBDA d : d.identifier)

\* the location parameter that mirrors an order
Mirrors(param, order) ==
  IF order = <<>> THEN ~ param.has ELSE param = Present(Join(order))

\* C1: the set of identifiers in DisplayOrder (_repoOrder) equals the set of
\* identifiers in RepoSet (_repos) in every reachable state, also while a
\* primary batch is in flight and after a batch has failed.
C1_DisplayOrderEqualsRepoSet == Range(repoOrder) = Range(RepoIds)

\* C2: every row of the summary under identifier X, and the release list
\* kept under X, hold what the two requests issued for X returned, whatever
\* ran between the fan-out and the commit.
C2_RowsHoldOwnResponses ==
  \A i \in DOMAIN repoSummaryData :
    LET id == repoSummaryData[i].identifier
    IN  /\ repoSummaryData[i] =
             SummaryRow(ParseRepo(id)[1], ServerReleases(id), ServerDetails(id))
        /\ id \in DOMAIN releasesData =>
             releasesData[id] = Published(ServerReleases(id))

\* C3: when a request of a primary batch fails the batch is discarded: the
\* step that issues a batch and the step that handles its failure both leave
\* the summary, the release map, the download map and the display order as
\* they are (so no row of the batch appears), and the failure sets the one
\* aggregate message.
C3_FailedBatchIsDiscarded ==
  [][ /\ Len(batches') > Len(batches) => primary' = primary
      /\ \A b \in DOMAIN batches :
           Settles(b, "failed") =>
             /\ primary' = primary
             /\ error' = ErrFetchRepoData ]_vars

\* C3 witness: a batch failed after part of its requests had been answered,
\* with rows of an earlier commit on display.
C3_Witness ==
  \E b \in DOMAIN batches :
    /\ batches[b].status = "failed"
    /\ batches[b].remaining < RequestsPerRepo * Len(batches[b].repos)
    /\ Len(repoSummaryData) > 0
    /\ Range(repoOrder) # Range(RepoIds)
    /\ error = ErrFetchRepoData

\* C4 (first part, which holds): the four structures change together, and a
\* commit happens in the step in which the last outstanding request of the
\* batch is answered.
C4_CommitAfterLastResponse ==
  [][ \A b \in DOMAIN batches :
        Settles(b, "committed") =>
          /\ batches[b].remaining = 1
          /\ lastCommit' = b ]_vars

\* C4: no state is reachable in which some but not all repos of one batch
\* carry that batch's data: of the repos the last committed batch was issued
\* for (those that left RepoSet since are not counted), either all or none
\* have a row.
C4_NoPartialBatch ==
  lastCommit # 0 =>
    LET members == Range(MapSeq(batches[lastCommit].repos, Identifier))
                     \cap Range(RepoIds)
        carriers == Range(RowIds(repoSummaryData))
    IN  members \cap carriers = {} \/ members \subseteq carriers

\* C5: immediately after every primary batch commit the summary has exactly
\* one row per identifier of DisplayOrder and the release map has exactly
\* those keys.
C5_CommitIsOneSnapshot ==
  [][ (\E b \in DOMAIN batches : Settles(b, "committed")) =>
        /\ \A id \in Range(repoOrder') :
             Occurrences(RowIds(repoSummaryData'), id) = 1
        /\ Range(RowIds(repoSummaryData')) = Range(repoOrder')
        /\ DOMAIN releasesData' = Range(repoOrder') ]_vars

\* C6: when two primary batches overlap, then once both have settled the
\* committed data are those of the batch that was issued last, whatever
\* order the two settle in: the commit that leaves no batch in flight leaves
\* the summary and the two maps as the batch issued last produces them.
C6_LastIssuedBatchWins ==
  [][ \A b \in DOMAIN batches :
        ( /\ Settles(b, "committed")
          /\ Len(batches) >= 2
          /\ \A c \in DOMAIN batches \ {b} : batches[c].status = "committed" )
        => /\ repoSummaryData' = NewSummaryData(batches[Len(batches)])
           /\ releasesData' = NewReleasesData(batches[Len(batches)])
           /\ downloadsData' = NewDownloadsData(batches[Len(batches)]) ]_vars

\* C7: every key of the star cache and of the issue cache is an identifier
\* of RepoSet, in every reachable state.
C7_CachesWithinRepoSet ==
  /\ DOMAIN stargazersData \subseteq Range(RepoIds)
  /\ DOMAIN issuesData \subseteq Range(RepoIds)

\* C8: after any request-sort or set-manual-order on a non-empty RepoSet,
\* DisplayOrder contains every identifier of RepoSet exactly once and
\* nothing else.
C8_OrderIsPermutationOfRepoSet ==
  [][ ((UserStep("sort") \/ UserStep("manualOrder")) /\ Len(repos) > 0) =>
        /\ Range(repoOrder') = Range(RepoIds')
        /\ \A id \in Range(repoOrder') : Occurrences(repoOrder', id) = 1 ]_vars

\* C9: after remove-repo, request-sort, set-manual-order and the confirmed
\* clear-all, and after add-repo once the batch it triggered has committed,
\* the `repos` location parameter is the comma-join of DisplayOrder, and is
\* absent exactly when DisplayOrder is empty.
C9_UrlMirrorsDisplayOrder ==
  [][ /\ ( \/ UserStep("remove") \/ UserStep("sort") \/ UserStep("manualOrder")
           \/ (UserStep("confirm") /\ lastOp'.arg = <<"clearAll">>) )
        => Mirrors(url', repoOrder')
      /\ (lastOp.kind = "add" /\ Settles(Len(batches), "committed"))
        => Mirrors(url', repoOrder') ]_vars

\* C10: remove-repo(id) removes id from RepoSet, DisplayOrder, the summary
\* rows, the release and download maps and both supplemental caches in one
\* step, keeps every other identifier's entries and the relative order of
\* the remaining identifiers, and issues no fetch.
C10_RemoveRepoFrame ==
  [][ UserStep("remove") =>
        LET id == lastOp'.arg
            Kept(m, n) == /\ DOMAIN n = (DOMAIN m) \ {id}
                          /\ \A k \in DOMAIN n : n[k] = m[k]
        IN  /\ RepoIds' = SelectSeq(RepoIds, LAMBDA x : x # id)
            /\ repoOrder' = SelectSeq(repoOrder, LAMBDA x : x # id)
            /\ repoSummaryData' =
                 SelectSeq(repoSummaryData, LAMBDA d : d.identifier # id)
            /\ Kept(releasesData, releasesData')
            /\ Kept(downloadsData, downloadsData')
            /\ Kept(stargazersData, stargazersData')
            /\ Kept(issuesData, issuesData')
            /\ UNCHANGED << batches, supps, loading >> ]_vars

\* C10 witness: a remove-repo has run on a state with cached star data, and
\* another identifier's rows and cache entry are still there.
C10_Witness ==
  /\ lastOp.kind = "remove"
  /\ Len(repos) > 0
  /\ DOMAIN stargazersData # {}
  /\ lastOp.arg \notin DOMAIN stargazersData
  /\ Len(repoSummaryData) > 0

\* C11: add-repo(id) with a well-formed id that is not in RepoSet appends id
\* at the end of RepoSet and issues one primary batch that covers every entry
\* of the new RepoSet; add-repo(id) with id already in RepoSet, or with an
\* empty owner or name, leaves RepoSet unchanged and issues no fetch.
C11_AddRepoContract ==
  [][ (UserStep("add") \/ UserStep("addRefused")) =>
        LET id == lastOp'.arg
            wellFormed == Len(id) = 3
        IN  IF wellFormed /\ id \notin Range(RepoIds)
              THEN /\ RepoIds' = Append(RepoIds, id)
                   /\ Len(batches') = Len(batches) + 1
                   /\ batches'[Len(batches')].repos = repos'
                   /\ batches'[Len(batches')].status = "inflight"
                   /\ SubSeq(batches', 1, Len(batches)) = batches
              ELSE UNCHANGED << repos, batches, supps >> ]_vars

\* C11 witness: an add-repo has appended to a non-empty RepoSet and its batch
\* covers both entries.
C11_Witness ==
  /\ lastOp.kind = "add"
  /\ Len(repos) >= 2
  /\ Identifier(repos[Len(repos)]) = lastOp.arg
  /\ Len(batches) > 0
  /\ batches[Len(batches)].repos = repos

\* C12: RepoSet is duplicate-free in every reachable state: no identifier
\* occurs twice in _repos.
C12_RepoSetDuplicateFree ==
  \A id \in Range(RepoIds) : Occurrences(RepoIds, id) = 1

\* no request of a primary batch or of a supplemental fetch is awaited
AllSettled ==
  /\ \A b \in DOMAIN batches : batches[b].status # "inflight"
  /\ \A s \in DOMAIN supps : supps[s].status # "inflight"

\* C13: the loading flag is set when a primary batch (or a supplemental
\* fetch) fans out and cleared on its success and on its failure path:
\* whenever every fetch that was issued has settled the flag is false, and it
\* becomes true only in a step that issues a fetch.
C13_LoadingClearedWhenSettled ==
  /\ [](AllSettled => ~ loading)
  /\ [][ /\ (Len(batches') > Len(batches) \/ Len(supps') > Len(supps)) => loading'
         /\ (loading' /\ ~ loading) =>
              (Len(batches') > Len(batches) \/ Len(supps') > Len(supps)) ]_vars

\* C13 witness: a primary batch has failed and a supplemental fetch has
\* settled, nothing is awaited and the flag is false.
C13_Witness ==
  /\ AllSettled
  /\ ~ loading
  /\ \E b \in DOMAIN batches : batches[b].status = "failed"
  /\ \E s \in DOMAIN supps : supps[s].status # "inflight"

\* the step taken is a click on the column header key, accepted or refused
SortClick(key) ==
  /\ (UserStep("sort") \/ UserStep("sortRefused"))
  /\ lastOp'.arg = <<key>>

\* C14: a request-sort for stars or open issues while no credential is set is
\* refused locally: it issues no request, sets the policy explanation, does
\* not touch the network error message, and leaves DisplayOrder, the sort key
\* and direction, the chart metric and the location parameter unchanged.
C14_GatedSortRefusedLocally ==
  [][ ((SortClick("stars") \/ SortClick("openIssues")) /\ githubToken = "") =>
        /\ authError' = ErrAuthRequired
        /\ UNCHANGED << error, repoOrder, sortKey, sortDirection, chartMetric,
                        url, batches, supps, loading >> ]_vars

\* C14 witness: a click on the open-issues column was refused on a state
\* that shows rows.
C14_Witness ==
  /\ lastOp = Op("sortRefused", <<"openIssues">>)
  /\ githubToken = ""
  /\ authError = ErrAuthRequired
  /\ Len(repoOrder) > 0
  /\ sortKey # "openIssues"

\* the step taken is a click on the column header key that is not refused
\* for want of a credential
AcceptedSort(key) ==
  /\ SortClick(key)
  /\ ~ (key \in {"stars", "openIssues"} /\ githubToken = "")

\* C15: an accepted request-sort for the key that is currently active keeps
\* the key and flips the direction: asc becomes desc and desc becomes asc.
C15_ActiveKeyTogglesDirection ==
  [][ \A key \in HeaderKeys :
        (AcceptedSort(key) /\ sortKey = key) =>
          /\ sortKey' = key
          /\ sortDirection = "asc" => sortDirection' = "desc"
          /\ sortDirection = "desc" => sortDirection' = "asc" ]_vars

\* C15 witness: the same column was clicked twice, so the direction is back
\* at the column's default after having been flipped.
C15_Witness ==
  /\ lastOp = Op("sort", <<"size">>)
  /\ nops = 2
  /\ sortKey = "size"
  /\ sortDirection = "asc"

\* C16: an accepted request-sort for a key other than the active one (the
\* Manual state included) selects that key with its default direction,
\* whatever the direction was: ascending for latest version and last update,
\* descending for stars, size, total downloads and open issues.
C16_OtherKeyDefaultDirection ==
  [][ \A key \in HeaderKeys :
        (AcceptedSort(key) /\ sortKey # key) =>
          /\ sortKey' = key
          /\ key \in {"latestVersion", "lastUpdate"} => sortDirection' = "asc"
          /\ key \in {"stars", "size", "totalDownloads", "openIssues"} =>
               sortDirection' = "desc" ]_vars

\* C16 witness: the second intent was a click on the latest-version column
\* while another key, or Manual, was active (a second click on the same
\* column would have left it descending).
C16_Witness ==
  /\ lastOp = Op("sort", <<"latestVersion">>)
  /\ nops = 2
  /\ sortKey = "latestVersion"
  /\ sortDirection = "asc"

\* the place of an identifier that occurs once in an order
PlaceOf(order, id) == CHOOSE i \in DOMAIN order : order[i] = id

\* C17: a key-based sort is stable with respect to the prior display order:
\* two repos whose rows compare equal on the sort key appear in the new
\* DisplayOrder in the relative order they had in DisplayOrder before the
\* sort, for both directions.
C17_SortStableOnDisplayOrder ==
  [][ \A key \in HeaderKeys :
        AcceptedSort(key) =>
          \A i, j \in DOMAIN repoSummaryData :
            LET a == repoSummaryData[i]
                b == repoSummaryData[j]
            IN  ( /\ a.identifier # b.identifier
                  /\ KeyValue(a, key) = KeyValue(b, key)
                  /\ Occurrences(repoOrder, a.identifier) = 1
                  /\ Occurrences(repoOrder, b.identifier) = 1
                  /\ Occurrences(RowIds(repoSummaryData), a.identifier) = 1
                  /\ Occurrences(RowIds(repoSummaryData), b.identifier) = 1
                  /\ PlaceOf(repoOrder, a.identifier) < PlaceOf(repoOrder, b.identifier) )
                => PlaceOf(repoOrder', a.identifier) < PlaceOf(repoOrder', b.identifier) ]_vars

Reverse(s) == [i \in DOMAIN s |-> s[Len(s) + 1 - i]]

\* C18: two consecutive accepted request-sort operations with the same key,
\* with no other operation and no commit between them and with the rows'
\* values for that key pairwise distinct, produce a DisplayOrder that is the
\* exact reverse of the DisplayOrder after the first of the two.
C18_SameKeyTwiceReverses ==
  [][ \A key \in HeaderKeys :
        ( /\ lastOp = Op("sort", <<key>>)
          /\ quiet
          /\ AcceptedSort(key)
          /\ \A i, j \in DOMAIN repoSummaryData :
               i # j => KeyValue(repoSummaryData[i], key) #
                          KeyValue(repoSummaryData[j], key) )
        => repoOrder' = Reverse(repoOrder) ]_vars

\* C18 witness: the only two intents were clicks on the last-update column of
\* a/x and b/x, whose dates differ; the second left them newest first.
C18_Witness ==
  /\ lastOp = Op("sort", <<"lastUpdate">>)
  /\ nops = 2
  /\ sortDirection = "desc"
  /\ repoOrder = <<IdAX, IdBX>>

\* C19: set-manual-order(p) makes DisplayOrder exactly the sequence p and
\* moves SortState to Manual, in which no column shows a sort-direction
\* indicator; it leaves RepoSet, the summary rows, the stored sort direction,
\* the chart metric and both supplemental caches unchanged and issues no
\* fetch.
C19_SetManualOrderFrame ==
  [][ UserStep("manualOrder") =>
        /\ repoOrder' = Split(lastOp'.arg, ",")
        /\ sortKey' = "manual"
        /\ \A key \in HeaderKeys : RenderSortIcon(key)' = ""
        /\ UNCHANGED << repos, repoSummaryData, sortDirection, chartMetric,
                        stargazersData, issuesData, batches, supps, loading >> ]_vars

\* C19 witness: after a sort by last update, ascending, the pill of b/x was
\* dragged behind a/x.
C19_Witness ==
  /\ lastOp = Op("manualOrder", Join(<<IdAX, IdBX>>))
  /\ repoOrder = <<IdAX, IdBX>>
  /\ sortKey = "manual"
  /\ sortDirection = "asc"
  /\ chartMetric = "lastUpdate"

\* C20: when request-sort for stars or open issues finds cache entries
\* missing for the current RepoSet, the supplemental fetch is triggered
\* before the new DisplayOrder is computed: the handler runs to its await in
\* one step, so in the state in which the fetch has just been issued
\* DisplayOrder and the location parameter still hold their pre-sort values.
C20_FetchBeforeNewOrder ==
  [][ Len(supps') > Len(supps) => UNCHANGED << repoOrder, url >> ]_vars

\* C21: a supplemental fetch of a kind runs the collector for exactly the
\* identifiers of RepoSet that have no entry of that kind in the cache at the
\* time of the request; when every identifier has an entry no request is
\* issued and the loading flag, the caches and the error message are
\* unchanged.
C21_FetchesExactlyMissing ==
  [][ \A key \in {"stars", "openIssues"} :
        AcceptedSort(key) =>
          LET cache == IF key = "stars" THEN stargazersData ELSE issuesData
              missing == { id \in Range(RepoIds) : id \notin DOMAIN cache }
              new == supps'[Len(supps')]
          IN  IF missing = {}
                THEN UNCHANGED << supps, loading, stargazersData, issuesData, error >>
                ELSE /\ Len(supps') = Len(supps) + 1
                     /\ SubSeq(supps', 1, Len(supps)) = supps
                     /\ new.kind = key
                     /\ new.status = "inflight"
                     /\ Range(MapSeq(new.repos, Identifier)) = missing
                     /\ new.pending = DOMAIN new.repos
                     /\ loading' ]_vars

\* C21 witness: the star column was clicked a second time after the one
\* star fetch had been merged for every identifier, and no second fetch was
\* issued.
C21_Witness ==
  /\ lastOp = Op("sort", <<"stars">>)
  /\ sortDirection = "asc"
  /\ Len(supps) = 1
  /\ supps[1].status = "merged"
  /\ Len(repos) > 0
  /\ Range(RepoIds) \subseteq DOMAIN stargazersData
  /\ ~ loading

\* C22: within one supplemental fetch over several identifiers each
\* identifier's result is merged into the cache as soon as its collection
\* completes: while the fetch is still awaited, every identifier of it whose
\* collection has completed (and that is still in RepoSet) has a cache entry.
C22_MergedPerIdentifier ==
  \A s \in DOMAIN supps :
    supps[s].status = "inflight" =>
      \A i \in (DOMAIN supps[s].repos) \ supps[s].pending :
        Identifier(supps[s].repos[i]) \in Range(RepoIds) =>
          Identifier(supps[s].repos[i]) \in DOMAIN Cache(supps[s].kind)

\* C23: at no time are two supplemental collections of the same kind in
\* flight for the same identifier.
C23_NoDuplicateCollection ==
  \A s, t \in DOMAIN supps :
    (supps[s].status = "inflight" /\ supps[t].status = "inflight"
       /\ supps[s].kind = supps[t].kind) =>
      \A i \in supps[s].pending : \A j \in supps[t].pending :
        (s # t \/ i # j) =>
          Identifier(supps[s].repos[i]) # Identifier(supps[t].repos[j])

\* supplemental fetch s settles in the step taken, with this outcome
SuppSettles(s, outcome) ==
  /\ s \in DOMAIN supps
  /\ supps[s].status = "inflight"
  /\ supps'[s].status = outcome

\* C24: a failed supplemental fetch is non-fatal: it leaves the summary rows,
\* DisplayOrder, the sort key and direction, RepoSet and the cached
\* supplemental entries unchanged, sets the supplemental error message of its
\* kind and clears the loading flag.
C24_SupplementalFailureNonFatal ==
  [][ \A s \in DOMAIN supps :
        SuppSettles(s, "failed") =>
          /\ UNCHANGED << repoSummaryData, repoOrder, sortKey, sortDirection,
                          repos, stargazersData, issuesData, releasesData,
                          downloadsData >>
          /\ error' = IF supps[s].kind = "stars" THEN ErrFetchStarHistory
                      ELSE ErrFetchIssueHistory
          /\ ~ loading' ]_vars

\* C24 witness: a second star fetch failed while the cache held the entry of
\* an earlier one and rows were on display.
C24_Witness ==
  /\ Len(supps) = 2
  /\ supps[1].status = "merged"
  /\ supps[2].status = "failed"
  /\ supps[2].kind = "stars"
  /\ DOMAIN stargazersData # {}
  /\ Len(repoSummaryData) > 0
  /\ error = ErrFetchStarHistory
  /\ ~ loading

\* C25: for a state with a non-empty RepoSet, also one where a sort or a
\* manual reorder made DisplayOrder differ from the insertion order, the
\* sequence save-set(X), clear-all, load-set(X) followed by a successful
\* primary batch leaves RepoSet and DisplayOrder both equal, element by
\* element, to the order that was on display when the set was saved (stated
\* here for a save made while the display listed every repo of RepoSet
\* once).
C25_SaveClearLoadRoundTrip ==
  [][ ( /\ roundTrip.phase = "loaded"
        /\ lastOp.kind = "loadSet"
        /\ Settles(Len(batches), "committed")
        /\ Len(roundTrip.shown) = Len(savedSets[roundTrip.name])
        /\ Range(roundTrip.shown) = Range(savedSets[roundTrip.name]) )
      => /\ RepoIds' = roundTrip.shown
         /\ repoOrder' = roundTrip.shown ]_vars

\* the step taken is the confirmation of a delete-set
ConfirmedDelete == UserStep("confirm") /\ lastOp'.arg = <<"deleteSet">>

\* C26: the saved-set mapping is persisted immediately: after every
\* save-set, update-set and confirmed delete-set the durable record under
\* the storage key decodes to exactly the in-memory mapping, and
\* save-set(name) stores the current RepoSet order under name.
C26_SetsPersistedImmediately ==
  [][ /\ (UserStep("saveSet") \/ UserStep("updateSet") \/ ConfirmedDelete) =>
           /\ storedSets'.has
           /\ JsonParse(storedSets'.value) = savedSets'
      /\ UserStep("saveSet") =>
           /\ lastOp'.arg[1] \in DOMAIN savedSets'
           /\ savedSets'[lastOp'.arg[1]] = RepoIds ]_vars

\* C26 witness: a save-set has stored a RepoSet of two under X and the
\* durable record holds the mapping.
C26_Witness ==
  /\ lastOp = Op("saveSet", <<"X">>)
  /\ Len(repos) >= 2
  /\ "X" \in DOMAIN savedSets
  /\ savedSets["X"] = RepoIds
  /\ storedSets = Present(Stringify(savedSets))

C28_StartParsesLocation ==
  lastOp.kind = "start" =>
    /\ url.has => Join(RepoIds) = url.value
    /\ ~ url.has => repos = <<>>
    /\ Len(repos) > 0 => (Len(batches) = 1 /\ batches[1].repos = repos)
    /\ Len(repos) = 0 => batches = <<>>
    /\ supps = <<>>

\* C28 witness: the engine has started on repos=a/x,b/x and issued the one
\* batch, of which nothing has been answered yet.
C28_Witness ==
  /\ lastOp.kind = "start"
  /\ url = Present(Join(<<IdAX, IdBX>>))
  /\ RepoIds = <<IdAX, IdBX>>
  /\ Len(batches) = 1
  /\ batches[1].remaining = RequestsPerRepo * 2
  /\ loading

\* C29: set-credential(token) replaces the auth context used by every
\* request issued afterwards and issues exactly one new primary batch when
\* RepoSet is non-empty and none when it is empty; batches already in flight
\* are not cancelled and keep the credential they were issued with.
C29_SetCredentialRefetches ==
  [][ /\ UserStep("setCredential") =>
           /\ githubToken' = lastOp'.arg[1]
           /\ UNCHANGED << repos, supps >>
           /\ IF Len(repos) > 0
                THEN /\ Len(batches') = Len(batches) + 1
                     /\ SubSeq(batches', 1, Len(batches)) = batches
                     /\ batches'[Len(batches')].repos = repos
                     /\ batches'[Len(batches')].status = "inflight"
                ELSE UNCHANGED batches
      /\ Len(batches') > Len(batches) =>
           batches'[Len(batches')].auth = githubToken'
      /\ Len(supps') > Len(supps) => supps'[Len(supps')].auth = githubToken'
      /\ \A b \in DOMAIN batches :
           /\ b \in DOMAIN batches'
           /\ batches'[b].auth = batches[b].auth
           /\ batches'[b].repos = batches[b].repos
           /\ batches[b].status # "inflight" => batches'[b] = batches[b]
           /\ batches'[b].status # batches[b].status => ~ UserStep("setCredential") ]_vars

\* C29 witness: a credential was set while the batch of the engine start was
\* in flight without one; that batch is still awaited, the new one carries
\* the credential.
C29_Witness ==
  /\ lastOp = Op("setCredential", <<"t1">>)
  /\ Len(batches) = 2
  /\ batches[1].auth = ""
  /\ batches[1].status = "inflight"
  /\ batches[2].auth = "t1"
  /\ batches[2].repos = repos
  /\ githubToken = "t1"

\* the pages a collector consumes of a source: all of them, or the first 10
Consumed(source) ==
  IF source.length = Unbounded \/ source.length > 10 THEN 10 ELSE source.length

\* the number of items the server lists on the first m pages of a source
Listed(source, m) ==
  IF m = 0 THEN 0
  ELSE IF m = source.length THEN (m - 1) * PageSize + source.tail
  ELSE m * PageSize

\* the items of the pages consumed, in server order
FirstPages(kind, source) ==
  [i \in 1 .. Listed(source, Consumed(source)) |->
     RawItem(kind, source, ((i - 1) \div PageSize) + 1, ((i - 1) % PageSize) + 1)]

\* what the collector is to return
Collected(kind, source) ==
  IF kind = "stars"
    THEN FirstPages(kind, source)
    ELSE MapSeq(SelectSeq(FirstPages(kind, source), NotPull), Dates)

\* C30: a collector that was called returns, having consumed at most 10
\* pages and holding at most 10 pages' worth of items; what it returns is
\* exactly the items of the first min(n, 10) pages of its own source in
\* server order (issues: without the pull requests), whatever an earlier
\* call collected
C30_CollectorsBounded ==
  /\ [](/\ coll.pageCount <= 10
        /\ Len(coll.items) <= 10 * PageSize)
  /\ [](coll.status = "returned"
          => coll.items = Collected(coll.kind, coll.source))
  /\ (coll.status = "running" ~> coll.status = "returned")

\* the second call of the issue collector has returned from a source without
\* a last page, each page led by a pull request
C30_Witness ==
  /\ coll.status = "returned"
  /\ coll.calls = 2
  /\ coll.kind = "issues"
  /\ coll.source.length = Unbounded
  /\ coll.source.pulls = "first"
  /\ coll.pageCount = 10
  /\ Len(coll.items) = 10 * (PageSize - 1)

\* the events handed to the chart for the one repository of the charts
ChartEvents == IF IdAX \in DOMAIN chart.data THEN chart.data[IdAX] ELSE <<>>

\* the series drawn for it
Series == chart.datasets[1].data

\* how often t occurs among the values
Count(values, t) == Cardinality({ i \in DOMAIN values : values[i] = t })

\* C31: the cumulative star series of N >= 1 star events, in any input
\* order, has exactly N points, the i-th with y = i, non-decreasing x
\* values, and as x values the event timestamps, each as often as it occurs
C31_StarSeries ==
  (chart.drawn /\ chart.metric = "stars" /\ Len(ChartEvents) >= 1) =>
    /\ Len(chart.datasets) = 1
    /\ Len(Series) = Len(ChartEvents)
    /\ \A i \in DOMAIN Series : Series[i].y = i
    /\ \A i \in 1 .. Len(Series) - 1 : Series[i].x <= Series[i + 1].x
    /\ \A t \in 0 .. MaxTime + 1 :
         Count([i \in DOMAIN Series |-> Series[i].x], t)
           = Count([i \in DOMAIN ChartEvents |-> ChartEvents[i].starred_at], t)

\* three star events out of order, two of them at one time, are drawn
C31_Witness ==
  /\ chart.drawn
  /\ chart.metric = "stars"
  /\ ChartEvents = <<[starred_at |-> 3], [starred_at |-> 1], [starred_at |-> 3]>>
  /\ Series = <<[x |-> 1, y |-> 1], [x |-> 3, y |-> 2], [x |-> 3, y |-> 3]>>

\* the issues created, and those closed, up to time t
CreatedUpTo(issues, t) ==
  Cardinality({ i \in DOMAIN issues : issues[i].created_at <= t })

ClosedUpTo(issues, t) ==
  Cardinality({ i \in DOMAIN issues :
                  issues[i].closed_at # 0 /\ issues[i].closed_at <= t })

\* C32: every point (t, y) of the open-issue series other than the anchor
\* has y = (issues created up to t) - (issues closed up to t), for issue
\* events in any input order; so an issue closed when it was created moves
\* no y value and an issue never closed counts at every later point
C32_OpenIssueCount ==
  (chart.drawn /\ chart.metric = "openIssues" /\ Len(ChartEvents) >= 1) =>
    /\ Len(chart.datasets) = 1
    /\ \A i \in 2 .. Len(Series) :
         Series[i].y = CreatedUpTo(ChartEvents, Series[i].x)
                         - ClosedUpTo(ChartEvents, Series[i].x)

\* drawn: an issue closed later, an issue never closed, and an issue closed
\* when it was created, handed over out of order
C32_Witness ==
  /\ chart.drawn
  /\ chart.metric = "openIssues"
  /\ ChartEvents = << [created_at |-> 2, closed_at |-> 0],
                      [created_at |-> 1, closed_at |-> 3],
                      [created_at |-> 2, closed_at |-> 2] >>
  /\ Series = << [x |-> 0, y |-> 0], [x |-> 1, y |-> 1], [x |-> 2, y |-> 2],
                 [x |-> 3, y |-> 1] >>

\* the distinct timestamps of a list of issue events
Timestamps(issues) ==
  { issues[i].created_at : i \in DOMAIN issues }
    \cup { issues[i].closed_at : i \in { j \in DOMAIN issues : issues[j].closed_at # 0 } }

\* C33: the open-issue series of a non-empty list of issue events has one
\* point per distinct event timestamp and before them the anchor
\* (first timestamp - 1, 0), so its x values increase strictly; an empty
\* list gives no series
C33_OnePointPerTimestamp ==
  (chart.drawn /\ chart.metric = "openIssues") =>
    IF Len(ChartEvents) >= 1
      THEN /\ Len(chart.datasets) = 1
           /\ Len(Series) = Cardinality(Timestamps(ChartEvents)) + 1
           /\ { Series[i].x : i \in 2 .. Len(Series) } = Timestamps(ChartEvents)
           /\ Series[1].y = 0
           /\ \A t \in Timestamps(ChartEvents) : Series[1].x <= t - 1
           /\ Series[1].x + 1 \in Timestamps(ChartEvents)
           /\ \A i \in 1 .. Len(Series) - 1 : Series[i].x < Series[i + 1].x
      ELSE chart.datasets = <<>>

\* drawn: three issue events that share the timestamps 2 and 3
C33_Witness ==
  /\ chart.drawn
  /\ chart.metric = "openIssues"
  /\ ChartEvents = << [created_at |-> 2, closed_at |-> 3],
                      [created_at |-> 3, closed_at |-> 0],
                      [created_at |-> 2, closed_at |-> 3] >>
  /\ Len(Series) = 3
  /\ Series[1] = [x |-> 1, y |-> 0]

\* the download counts of the assets of the releases that carry a
\* publication date, summed
PublishedDownloads(releasesResponse) ==
  LET published == { i \in DOMAIN releasesResponse :
                       releasesResponse[i].published_at # 0 }
      Sum[S \in SUBSET published] ==
        IF S = {} THEN 0
        ELSE LET i == CHOOSE x \in S : TRUE
             IN  SumSeq(releasesResponse[i].assets) + Sum[S \ {i}]
  IN  Sum[published]

\* C34 (the part that holds): every row a commit writes carries the sum of
\* the asset download counts of the published releases of the response it
\* was built from, a draft adds nothing, and a response without a published
\* release gives a row with 0 downloads and the not-available sentinel.
C34_RowArithmetic ==
  [][ \A b \in DOMAIN batches :
        Settles(b, "committed") =>
          /\ Len(repoSummaryData') = Cardinality(Committed(batches[b]))
          /\ \A i \in DOMAIN repoSummaryData' :
               LET response == Results(batches[b])[i].releases
               IN  /\ repoSummaryData'[i].totalDownloads
                        = PublishedDownloads(response)
                   /\ (\A k \in DOMAIN response : response[k].published_at = 0)
                        => /\ repoSummaryData'[i].totalDownloads = 0
                           /\ repoSummaryData'[i].latestVersion = NotAvailable ]_vars

\* C34: for every repo of a batch that commits (and that is still in RepoSet
\* then), the row under its identifier
\* carries as totalDownloads the sum of the download counts of all assets of
\* the releases returned for it that have a publication date; the drafts
\* add nothing and are not stored; a repo without a published release has a
\* row too, with totalDownloads 0 and the not-available sentinel as
\* latestVersion.
C34_TotalDownloadsOfPublished ==
  [][ \A b \in DOMAIN batches :
        Settles(b, "committed") =>
          \A r \in Range(batches[b].repos) \cap Range(repos) :
            LET id == Identifier(r)
                response == ServerReleases(id)
            IN  /\ \E i \in DOMAIN repoSummaryData' :
                     repoSummaryData'[i].identifier = id
                /\ \A i \in DOMAIN repoSummaryData' :
                     repoSummaryData'[i].identifier = id =>
                       /\ repoSummaryData'[i].totalDownloads
                            = PublishedDownloads(response)
                       /\ (\A k \in DOMAIN response : response[k].published_at = 0)
                            => repoSummaryData'[i].latestVersion = NotAvailable
                /\ id \in DOMAIN releasesData'
                /\ \A k \in DOMAIN releasesData'[id] :
                     releasesData'[id][k].published_at # 0 ]_vars

\* the export handler runs in the step taken
Exports == ~ download.done /\ download'.done

\* C35: the CSV export gives the header row and after it exactly one data
\* row per identifier of DisplayOrder, in the order of DisplayOrder, in every
\* state in which DisplayOrder is non-empty (here: with nothing in flight).
C35_ExportFollowsDisplayOrder ==
  [][ (Exports /\ AllSettled /\ Len(repoOrder) > 0) =>
        LET lines == Split(download'.content, Newline)
        IN  /\ Len(lines) = 1 + Len(repoOrder)
            /\ lines[1] = JoinWith(CsvHeaders, Comma)
            /\ \A i \in DOMAIN repoOrder :
                 Split(lines[i + 1], Comma)[1] = repoOrder[i] ]_vars

\* a reader of CSV: the fields of one line, commas inside a quoted field
\* kept and a doubled quote inside it read as one
RECURSIVE CsvParseFrom(_, _, _)
CsvParseFrom(s, field, quoted) ==
  IF s = <<>> THEN <<field>>
  ELSE IF quoted
    THEN IF Head(s) = Quote
           THEN IF Len(s) >= 2 /\ s[2] = Quote
                  THEN CsvParseFrom(Tail(Tail(s)), Append(field, Quote), TRUE)
                  ELSE CsvParseFrom(Tail(s), field, FALSE)
           ELSE CsvParseFrom(Tail(s), Append(field, Head(s)), TRUE)
    ELSE IF Head(s) = Comma
           THEN <<field>> \o CsvParseFrom(Tail(s), <<>>, FALSE)
         ELSE IF Head(s) = Quote /\ field = <<>>
           THEN CsvParseFrom(Tail(s), field, TRUE)
         ELSE CsvParseFrom(Tail(s), Append(field, Head(s)), FALSE)

CsvParse(line) == CsvParseFrom(line, <<>>, FALSE)

\* the fields of a row as they are before the export
RawFields(repo) ==
  << repo.identifier, repo.stars, repo.latestVersion, repo.lastUpdate,
     repo.size, repo.totalDownloads >>

\* the characters the export adds to a field: none, or the two quotes
\* around it and one more quote per quote in it
Added(text) ==
  IF \E i \in DOMAIN text : text[i] \in {Comma, Quote, Newline}
    THEN 2 + Cardinality({ i \in DOMAIN text : text[i] = Quote })
    ELSE 0

\* C36: in the data row of the export every field that contains a comma, a
\* double quote or a newline is wrapped in double quotes with each quote in
\* it doubled, and a field with none of them is emitted as it is: a reader
\* of CSV gets the fields back, the row is longer than its fields and
\* commas by exactly the wrapping quotes and the doubled quotes, and a,b
\* becomes "a,b" and a"b becomes "a""b".
C36_FieldsEscaped ==
  download.done =>
    LET raw == RawFields(download.rows[1])
        line == download.content
    IN  /\ CsvParse(line) = raw
        /\ Len(line) = 5 + Len(raw[1]) + Added(raw[1]) + Len(raw[2])
                         + Len(raw[3]) + Added(raw[3]) + Len(raw[4])
                         + Len(raw[5]) + Len(raw[6])
        /\ (Added(raw[1]) = 0 /\ Added(raw[3]) = 0)
             => line = JoinWith(raw, Comma)
        /\ raw[1] = <<"a", Comma, "a">>
             => SubSeq(line, 1, 5) = <<Quote, "a", Comma, "a", Quote>>
        /\ raw[1] = <<"a", Quote, "a">>
             => SubSeq(line, 1, 6) = <<Quote, "a", Quote, Quote, "a", Quote>>

\* the row with the identifier a,a and the version a"a has been exported
C36_Witness ==
  /\ download.done
  /\ download.rows[1].identifier = <<"a", Comma, "a">>
  /\ download.rows[1].latestVersion = <<"a", Quote, "a">>
  /\ download.content =
       << Quote, "a", Comma, "a", Quote, Comma, "5", Comma,
          Quote, "a", Quote, Quote, "a", Quote, Comma, "30", Comma, "100",
          Comma, "12" >>

\* C37: the chart metric follows the sorted column: after every accepted
\* request-sort(key) it equals key, and no other step changes it (not a
\* manual reorder, a refused policy-gated sort, an add, a remove, a batch
\* commit or any other).
C37_ChartMetricFollowsSort ==
  [][ /\ \A key \in HeaderKeys : AcceptedSort(key) => chartMetric' = key
      /\ (~ \E key \in HeaderKeys : AcceptedSort(key))
           => chartMetric' = chartMetric ]_vars

\* C37 witness: the size column was clicked and a manual reorder followed;
\* the chart still shows the size.
C37_Witness ==
  /\ lastOp.kind = "manualOrder"
  /\ sortKey = "manual"
  /\ chartMetric = "size"

\* the summary row of an identifier (the first, should there be several)
RowOf(id) ==
  repoSummaryData[CHOOSE i \in DOMAIN repoSummaryData :
                    /\ repoSummaryData[i].identifier = id
                    /\ \A j \in 1 .. i - 1 : repoSummaryData[j].identifier # id]

\* no primary batch is in flight
NoBatchInFlight == \A b \in DOMAIN batches : batches[b].status # "inflight"

\* C38: whenever the sort state is Sorted(key, direction) and no primary
\* batch is in flight, DisplayOrder is ordered by that key in that direction
\* over the current summary (here: in the states in which the summary has
\* exactly the rows of DisplayOrder): of two neighbours the first does not
\* come after the second under the comparator.
C38_DisplayOrderFollowsSortState ==
  ( /\ sortKey # "manual"
    /\ NoBatchInFlight
    /\ Range(RowIds(repoSummaryData)) = Range(repoOrder)
    /\ Len(repoSummaryData) = Len(repoOrder) )
  => \A i \in 1 .. Len(repoOrder) - 1 :
       KeyValue(RowOf(repoOrder[i]), sortKey) # KeyValue(RowOf(repoOrder[i + 1]), sortKey)
         => IF sortDirection = "asc"
              THEN KeyValue(RowOf(repoOrder[i]), sortKey)
                     < KeyValue(RowOf(repoOrder[i + 1]), sortKey)
              ELSE KeyValue(RowOf(repoOrder[i]), sortKey)
                     > KeyValue(RowOf(repoOrder[i + 1]), sortKey)

\* C39: the loading flag is true in every state in which a primary batch or
\* a supplemental fetch is still in flight, also when two batches overlap
\* and the first settles before the second, and when a supplemental fetch
\* and a primary batch overlap.
C39_LoadingWhileInFlight == ~ AllSettled => loading

\* what a confirmed clear-all empties
Cleared ==
  /\ repos = <<>>
  /\ repoOrder = <<>>
  /\ repoSummaryData = <<>>
  /\ releasesData = EmptyMap

\* C40: the clear-all intent changes no engine state before it is confirmed
\* (the click and a dismissal of the dialog leave the data as they are); the
\* confirmation empties RepoSet, DisplayOrder, the summary, the release and
\* download maps and both supplemental caches and removes the location
\* parameter; and as long as no further intent is raised RepoSet,
\* DisplayOrder, the summary and the release map stay empty, also when a
\* primary batch that was in flight at the clear settles.
C40_ClearAllOnlyWhenConfirmed ==
  [][ /\ ( \/ UserStep("clearAll")
           \/ (UserStep("dismiss") /\ confirmAction.kind = "clearAll") )
        => UNCHANGED << repos, repoOrder, repoSummaryData, releasesData,
                        downloadsData, stargazersData, issuesData, url,
                        sortKey, sortDirection, chartMetric, batches, supps,
                        loading, error, savedSets, storedSets >>
      /\ (UserStep("confirm") /\ lastOp'.arg = <<"clearAll">>)
        => /\ Cleared'
           /\ downloadsData' = EmptyMap
           /\ stargazersData' = EmptyMap
           /\ issuesData' = EmptyMap
           /\ ~ url'.has
      /\ (lastOp = Op("confirm", <<"clearAll">>) /\ lastOp' = lastOp)
        => Cleared' ]_vars

\* C40 witness: after a confirmed clear-all, with no intent since, a batch
\* that was in flight at the clear has failed (the clear had reset the
\* error message) and another one has committed; all is still empty.
C40_Witness ==
  /\ lastOp = Op("confirm", <<"clearAll">>)
  /\ error = ErrFetchRepoData
  /\ \E b \in DOMAIN batches : batches[b].status = "committed"
  /\ Cleared
  /\ ~ url.has

====
